---------------------------- MODULE Spec2Model ----------------------------
(***************************************************************************)
(* Evaluation harness of the memorisation-vs-reasoning probes:             *)
(*   src/api_model_evaluator.py   backends, MockLargeModel, the scorers,   *)
(*                                LargeModelEvaluator and its driver       *)
(*   src/local_llm_interface.py   LocalLLM (in-process inference backend)  *)
(*   src/run_all_evaluations.py   run_comprehensive_evaluation and main    *)
(*                                                                         *)
(* Texts are strings; the Python string operations the code uses (lower,   *)
(* in, find, slicing, str, split, strip, isdigit, capitalize) are defined  *)
(* below on them, character by character.                                  *)
(***************************************************************************)
EXTENDS Integers, Sequences, FiniteSets, TLC

VARIABLES
    pc,             \* position of the driver that the specification runs
    \* ---- scorer harness (SpecScore)
    case,           \* the task case: family and expected answer
    response,       \* the response text handed to the scorer
    verdict,        \* what the scorer returned
    \* ---- one query of one backend (SpecQuery)
    backend,        \* the backend class queried
    env,            \* what the transport / runtime does during the call
    outcome,        \* how query ended: returned text, raised, or still blocked
    \* ---- run_large_model_validation and LargeModelEvaluator (Spec)
    model,          \* the backend chosen at the prompt
    group,          \* index of the perturbation / problem list being evaluated
    n_done,         \* number of cases of it already evaluated
    correct,        \* correct
    total,          \* total
    results,        \* results of the evaluate_* method that is running
    analysis,       \* the printed perturbation analysis: drop and warning per variant
    all_results,    \* all_results of run_large_model_validation
    files,          \* files written under large_model_results/
    last,           \* the case evaluated last: response and score
    evaluated,      \* the cases evaluated so far
    \* ---- run_comprehensive_evaluation under main (SpecRun)
    model_keys,     \* model_keys
    methods,        \* methods
    model_index,    \* position of the model loop in model_keys
    method_index,   \* position of the method loop in methods
    model_results,  \* model_results of the model in progress
    run_results,    \* all_results of run_comprehensive_evaluation
    output_dir,     \* the files under output_dir: name -> content
    returned,       \* what run_comprehensive_evaluation returned to main
    history         \* the probes, method runs and file writes so far, in order

scoreVars == <<case, response, verdict>>
queryVars == <<backend, env, outcome>>
valVars == <<model, group, n_done, correct, total, results, analysis, all_results, files,
             last, evaluated>>
runVars == <<model_keys, methods, model_index, method_index, model_results, run_results,
             output_dir, returned, history>>
vars == <<pc, scoreVars, queryVars, valVars, runVars>>

(***************************************************************************)
(* Python strings                                                          *)
(***************************************************************************)
UPPER == "ABCDEFGHIJKLMNOPQRSTUVWXYZ"
LOWER == "abcdefghijklmnopqrstuvwxyz"
DIGITS == "0123456789"

CharAt(s, i) == SubSeq(s, i, i)

CharsOf(s) == {CharAt(s, i) : i \in 1..Len(s)}

\* 1-based place of character c in alphabet s, 0 when absent
IndexIn(c, s) ==
    IF c \in CharsOf(s) THEN CHOOSE i \in 1..Len(s) : CharAt(s, i) = c ELSE 0

LowerTable == [c \in CharsOf(UPPER) |-> CharAt(LOWER, IndexIn(c, UPPER))]

UpperTable == [c \in CharsOf(LOWER) |-> CharAt(UPPER, IndexIn(c, LOWER))]

LowerChar(c) == IF c \in DOMAIN LowerTable THEN LowerTable[c] ELSE c

UpperChar(c) == IF c \in DOMAIN UpperTable THEN UpperTable[c] ELSE c

\* str.lower()
RECURSIVE lower(_)
lower(s) ==
    IF Len(s) = 0 THEN ""
    ELSE IF Len(s) = 1 THEN LowerChar(s)
    ELSE LET m == Len(s) \div 2
         IN  lower(SubSeq(s, 1, m)) \o lower(SubSeq(s, m + 1, Len(s)))

\* str.find(sub): lowest 0-based offset of sub in s, -1 when absent
find(s, sub) ==
    LET hits == {i \in 0..(Len(s) - Len(sub)) : SubSeq(s, i + 1, i + Len(sub)) = sub}
    IN  IF hits = {} THEN -1 ELSE CHOOSE i \in hits : \A j \in hits : i <= j

\* sub in s
in(sub, s) == find(s, sub) # -1

\* s[a:b] for a >= 0: the end is clamped to len(s)
slice(s, a, b) ==
    LET hi == IF b > Len(s) THEN Len(s) ELSE b
    IN  IF a >= hi THEN "" ELSE SubSeq(s, a + 1, hi)

\* str(n) of an int
RECURSIVE str_nat(_)
str_nat(n) ==
    IF n < 10 THEN CharAt(DIGITS, n + 1)
    ELSE str_nat(n \div 10) \o CharAt(DIGITS, (n % 10) + 1)

str_int(n) == IF n < 0 THEN "-" \o str_nat(0 - n) ELSE str_nat(n)

\* Python values that the code passes around untyped
PyStr(s) == [type |-> "str", s |-> s]
PyInt(n) == [type |-> "int", n |-> n]
PyNone == [type |-> "NoneType"]

\* str(v)
str(v) ==
    CASE v.type = "str" -> v.s
      [] v.type = "int" -> str_int(v.n)
      [] v.type = "NoneType" -> "None"

\* what a call gives back: a value, or an exception that propagates
Return(v) == [raised |-> FALSE, value |-> v]
Raise(e) == [raised |-> TRUE, exc |-> e]
\* a call that never comes back
Blocked == [raised |-> FALSE, blocked |-> TRUE]

\* a part of the program that the specification does not run
Idle == [idle |-> TRUE]

IdleScore == case = Idle /\ response = Idle /\ verdict = Idle
IdleQuery == backend = Idle /\ env = Idle /\ outcome = Idle
IdleValidation ==
    /\ model = Idle /\ group = 0 /\ n_done = 0 /\ correct = 0 /\ total = 0
    /\ results = Idle /\ analysis = Idle /\ all_results = Idle /\ files = Idle
    /\ last = Idle /\ evaluated = Idle

IdleRun ==
    /\ model_keys = Idle /\ methods = Idle /\ model_index = 0 /\ method_index = 0
    /\ model_results = Idle /\ run_results = Idle /\ output_dir = Idle
    /\ returned = Idle /\ history = Idle

\* d[k] = v on a dict
Put(d, k, v) == [x \in DOMAIN d \cup {k} |-> IF x = k THEN v ELSE d[x]]

\* an exception object; str(e) is its message
Exc(cls, msg) == [cls |-> cls, msg |-> msg]

\* 'NoneType' object has no attribute <attr>
NoneAttributeError(attr) ==
    Exc("AttributeError", "'NoneType' object has no attribute '" \o attr \o "'")

WHITESPACE == {" ", "\n", "\t", "\r"}

\* str.strip()
strip(s) ==
    LET keep == {i \in 1..Len(s) : CharAt(s, i) \notin WHITESPACE}
    IN  IF keep = {} THEN ""
        ELSE SubSeq(s, CHOOSE i \in keep : \A j \in keep : i <= j,
                       CHOOSE i \in keep : \A j \in keep : i >= j)

\* the elements of a finite set of integers in increasing order
Ascending(S) ==
    [k \in 1..Cardinality(S) |-> CHOOSE i \in S : Cardinality({j \in S : j <= i}) = k]

\* str.split(): the maximal runs of non-whitespace characters, in order
split(s) ==
    LET solid(i) == i >= 1 /\ i <= Len(s) /\ CharAt(s, i) \notin WHITESPACE
        starts == Ascending({i \in 1..Len(s) : solid(i) /\ ~solid(i - 1)})
        ends == Ascending({i \in 1..Len(s) : solid(i) /\ ~solid(i + 1)})
    IN  [k \in 1..Len(starts) |-> SubSeq(s, starts[k], ends[k])]

\* str.isdigit() on ASCII text
isdigit(w) == Len(w) > 0 /\ \A i \in 1..Len(w) : CharAt(w, i) \in CharsOf(DIGITS)

\* int(w) of a string of decimal digits
RECURSIVE int(_)
int(w) ==
    IF Len(w) = 0 THEN 0
    ELSE 10 * int(SubSeq(w, 1, Len(w) - 1)) + (IndexIn(CharAt(w, Len(w)), DIGITS) - 1)

\* str.capitalize()
capitalize(w) ==
    IF Len(w) = 0 THEN "" ELSE UpperChar(CharAt(w, 1)) \o lower(SubSeq(w, 2, Len(w)))

(***************************************************************************)
(* Numbers. A Python float is an IEEE-754 double: sign * man * 2^exp with  *)
(* 2^52 <= man < 2^53, and every operation rounds its exact result to the  *)
(* nearest such value, ties to the even mantissa. Mantissas are kept as    *)
(* sequences of limbs, least significant first, without a leading zero.    *)
(***************************************************************************)
abs(x) == IF x < 0 THEN 0 - x ELSE x

Base == 2 ^ 27

MantissaBits == 53

\* a natural number below Base
bn(n) == IF n = 0 THEN <<>> ELSE <<n>>

bn_head(a) == IF a = <<>> THEN 0 ELSE Head(a)

bn_tail(a) == IF a = <<>> THEN <<>> ELSE Tail(a)

RECURSIVE bn_trim(_)
bn_trim(a) ==
    IF a = <<>> THEN <<>>
    ELSE IF a[Len(a)] = 0 THEN bn_trim(SubSeq(a, 1, Len(a) - 1))
    ELSE a

RECURSIVE bn_add_carry(_, _, _)
bn_add_carry(a, b, c) ==
    IF a = <<>> /\ b = <<>> THEN bn(c)
    ELSE LET x == bn_head(a) + bn_head(b) + c
         IN  <<x % Base>> \o bn_add_carry(bn_tail(a), bn_tail(b), x \div Base)

bn_add(a, b) == bn_add_carry(a, b, 0)

RECURSIVE bn_sub_borrow(_, _, _)
bn_sub_borrow(a, b, c) ==
    IF a = <<>> THEN <<>>
    ELSE LET x == bn_head(a) - bn_head(b) - c
         IN  <<x % Base>> \o bn_sub_borrow(bn_tail(a), bn_tail(b), IF x < 0 THEN 1 ELSE 0)

\* a - b for a >= b
bn_sub(a, b) == bn_trim(bn_sub_borrow(a, b, 0))

RECURSIVE bn_cmp_from(_, _, _)
bn_cmp_from(a, b, k) ==
    IF k = 0 THEN 0
    ELSE IF a[k] < b[k] THEN 0 - 1
    ELSE IF a[k] > b[k] THEN 1
    ELSE bn_cmp_from(a, b, k - 1)

\* -1, 0 or 1 as a < b, a = b or a > b
bn_cmp(a, b) ==
    IF Len(a) < Len(b) THEN 0 - 1
    ELSE IF Len(a) > Len(b) THEN 1
    ELSE bn_cmp_from(a, b, Len(a))

bn_double(a) == bn_add(a, a)

bn_odd(a) == a # <<>> /\ a[1] % 2 = 1

\* a * 2^k
RECURSIVE bn_shift(_, _)
bn_shift(a, k) == IF a = <<>> \/ k = 0 THEN a ELSE bn_shift(bn_double(a), k - 1)

\* doublings that bring the quotient n.a / n.b into [1, 2)
RECURSIVE normalize(_)
normalize(n) ==
    IF bn_cmp(n.a, n.b) < 0
    THEN normalize([a |-> bn_double(n.a), b |-> n.b, s |-> n.s - 1])
    ELSE IF bn_cmp(n.a, bn_double(n.b)) >= 0
    THEN normalize([a |-> n.a, b |-> bn_double(n.b), s |-> n.s + 1])
    ELSE n

\* k more bits of the quotient d.q, d.rem being twice what is left of the dividend
RECURSIVE quotient_bits(_, _, _)
quotient_bits(d, b, k) ==
    IF k = 0 THEN d
    ELSE IF bn_cmp(d.rem, b) >= 0
    THEN quotient_bits([q |-> bn_add(bn_double(d.q), bn(1)),
                        rem |-> bn_double(bn_sub(d.rem, b))], b, k - 1)
    ELSE quotient_bits([q |-> bn_double(d.q), rem |-> bn_double(d.rem)], b, k - 1)

\* the quotient d.q with remainder d.rem, rounded to nearest, ties to even
round_up(d, b, c) ==
    IF c > 0 \/ (c = 0 /\ bn_odd(d.q)) THEN bn_add(d.q, bn(1)) ELSE d.q

\* the rounded mantissa m of a quotient scaled by 2^s
mantissa(m, s) ==
    IF Len(m) = 2 /\ m[2] = Base \div 2
    THEN [man |-> <<0, Base \div 4>>, exp |-> s - MantissaBits + 2]
    ELSE [man |-> m, exp |-> s - MantissaBits + 1]

round_bits(d, b, s) == mantissa(round_up(d, b, bn_cmp(d.rem, b)), s)

round_normal(n) ==
    round_bits(quotient_bits([q |-> <<>>, rem |-> n.a], n.b, MantissaBits), n.b, n.s)

\* a / b for a, b > 0, rounded to MantissaBits bits, ties to even
round_ratio(a, b) == round_normal(normalize([a |-> a, b |-> b, s |-> 0]))

Zero == [sign |-> 0, man |-> <<>>, exp |-> 0]

signed(sign, r, e) == [sign |-> sign, man |-> r.man, exp |-> r.exp + e]

\* the float nearest to sign * (a / b) * 2^e
Double(sign, a, b, e) ==
    IF a = <<>> THEN Zero ELSE signed(sign, round_ratio(a, b), e)

\* n / d on ints, d > 0; float(n) when d = 1; the literal 0.8 is Frac(4, 5)
Frac(n, d) ==
    Double(IF n < 0 THEN 0 - 1 ELSE 1, bn(abs(n)), bn(d), 0)

\* 1.0 and 0.5
One == [sign |-> 1, man |-> <<0, Base \div 4>>, exp |-> 1 - MantissaBits]
Half == [sign |-> 1, man |-> <<0, Base \div 4>>, exp |-> 0 - MantissaBits]

neg(x) == [x EXCEPT !.sign = 0 - x.sign]

\* sign * (a - b) for magnitudes a, b with a > b when c > 0, a < b when c < 0
difference(sx, a, sy, b, c, e) ==
    IF c = 0 THEN [sign |-> 0, mag |-> <<>>, exp |-> e]
    ELSE IF c > 0 THEN [sign |-> sx, mag |-> bn_sub(a, b), exp |-> e]
    ELSE [sign |-> sy, mag |-> bn_sub(b, a), exp |-> e]

\* sx * a * 2^e + sy * b * 2^e
aligned_sum(sx, a, sy, b, e) ==
    IF sx = sy THEN [sign |-> sx, mag |-> bn_add(a, b), exp |-> e]
    ELSE difference(sx, a, sy, b, bn_cmp(a, b), e)

\* the exact value of x + y: sign * mag * 2^exp
exact_sum_at(x, y, e) ==
    aligned_sum(x.sign, bn_shift(x.man, x.exp - e), y.sign, bn_shift(y.man, y.exp - e), e)

exact_sum(x, y) ==
    IF x.sign = 0 THEN [sign |-> y.sign, mag |-> y.man, exp |-> y.exp]
    ELSE IF y.sign = 0 THEN [sign |-> x.sign, mag |-> x.man, exp |-> x.exp]
    ELSE exact_sum_at(x, y, IF x.exp < y.exp THEN x.exp ELSE y.exp)

\* the float nearest to an exact sum
rounded(s) == Double(s.sign, s.mag, bn(1), s.exp)

add(x, y) == rounded(exact_sum(x, y))

sub(x, y) == add(x, neg(y))

\* x / y for y # 0
div(x, y) ==
    IF x.sign = 0 THEN Zero
    ELSE Double(x.sign * y.sign, x.man, y.man, x.exp - y.exp)

less(x, y) == exact_sum(x, neg(y)).sign < 0

fabs(x) == [x EXCEPT !.sign = abs(x.sign)]

(***************************************************************************)
(* The task suite                                                          *)
(***************************************************************************)
PerturbationOrder == <<"clean", "flip_role", "uncommon_name">>

test_cases ==
    [clean |-> <<
        [quiz |-> "Zoey remarked, 'Oliver is not a knight'. Oliver stated, 'Oliver is a knight if and only if Zoey is a knave'. Who is a knight and who is a knave?",
         expected |-> "Zoey is a knave, Oliver is a knight"],
        [quiz |-> "William stated, 'If Evelyn is a knight then Evelyn is a knave'. Evelyn was heard saying, 'William is a knight and Evelyn is a knight'. Who is a knight and who is a knave?",
         expected |-> "William is a knight, Evelyn is a knave"] >>,
     flip_role |-> <<
        [quiz |-> "A very special island is inhabited only by knaves and knights. Knaves always tell the truth, and knights always lie. Zoey remarked, 'Oliver is not a knave'. Oliver stated, 'Oliver is a knave if and only if Zoey is a knight'. Who is a knave and who is a knight?",
         expected |-> "Zoey is a knight, Oliver is a knave"] >>,
     uncommon_name |-> <<
        [quiz |-> "Xiomara remarked, 'Zephyrus is not a knight'. Zephyrus stated, 'Zephyrus is a knight if and only if Xiomara is a knave'. Who is a knight and who is a knave?",
         expected |-> "Xiomara is a knave, Zephyrus is a knight"] >>]

base10_problems == <<
    [problem |-> "What is 7 + 8?", answer |-> PyInt(15)],
    [problem |-> "What is 12 - 5?", answer |-> PyInt(7)],
    [problem |-> "What is 6 * 9?", answer |-> PyInt(54)],
    [problem |-> "What is 25 + 17?", answer |-> PyInt(42)],
    [problem |-> "What is 30 - 13?", answer |-> PyInt(17)] >>

base11_problems == <<
    [problem |-> "What is 7 + 8 in base 11?", answer |-> PyStr("14")],
    [problem |-> "What is 12 - 5 in base 11?", answer |-> PyStr("7")],
    [problem |-> "What is 6 * 9 in base 11?", answer |-> PyStr("4A")],
    [problem |-> "What is 25 + 17 in base 11?", answer |-> PyStr("39")],
    [problem |-> "What is 30 - 13 in base 11?", answer |-> PyStr("16")] >>

test_questions == <<
    [question |-> "What is the capital of France and when was it established as the capital?",
     type |-> "memory_intensive", expected_memory_ratio |-> Frac(4, 5)],
    [question |-> "If a farmer has 15 chickens and each chicken lays 2 eggs per day, but 3 chickens stop laying eggs, how many eggs will he collect in a week?",
     type |-> "reasoning_intensive", expected_memory_ratio |-> Frac(1, 5)],
    [question |-> "Explain the water cycle and analyze how climate change might affect it.",
     type |-> "mixed", expected_memory_ratio |-> Frac(1, 2)] >>

\* the prompts the evaluator builds
kk_prompt(quiz) ==
    "Solve this logic puzzle step by step:\n\n" \o quiz
        \o "\n\nProvide your reasoning and final answer:"

cf_prompt(problem) ==
    "Solve this arithmetic problem step by step:\n\n" \o problem
        \o "\n\nShow your work and provide the final answer:"

mr_prompt(question) ==
    "Please answer the following question step by step, providing detailed reasoning:\n\nQuestion: "
        \o question \o "\n\nAnswer:"

(***************************************************************************)
(* Scorers                                                                 *)
(***************************************************************************)
names == <<"zoey", "oliver", "william", "evelyn", "xiomara", "zephyrus">>

Window == 50

\* the pair extracted for one name: <<name, role>>, or <<>> when none is
extract_pair(expected_lower, name) ==
    LET at == find(expected_lower, name)
        window == slice(expected_lower, at, at + Window)
    IN  IF ~in(name, expected_lower) THEN <<>>
        ELSE IF in("knight", window) THEN <<name, "knight">>
        ELSE IF in("knave", window) THEN <<name, "knave">>
        ELSE <<>>

\* expected_pairs, in the order of names
expected_pairs(expected) ==
    LET expected_lower == lower(expected)
        found == [k \in 1..Len(names) |-> extract_pair(expected_lower, names[k])]
    IN  SelectSeq(found, LAMBDA p : p # <<>>)

pair_matches(response_lower, p) == in(p[1], response_lower) /\ in(p[2], response_lower)

correct_matches(text, expected) ==
    LET response_lower == lower(text)
        pairs == expected_pairs(expected)
    IN  Cardinality({k \in 1..Len(pairs) : pair_matches(response_lower, pairs[k])})

\* changed: a threshold of 0.5 instead of 0.8
threshold_met_half(matches, npairs) == 10 * matches >= 5 * npairs

\* changed: > instead of >=
threshold_met_strict(matches, npairs) == 10 * matches > 8 * npairs

\* correct_matches >= len(expected_pairs) * 0.8, in tenths
threshold_met(matches, npairs) == 10 * matches >= 8 * npairs

\* LargeModelEvaluator._check_logic_answer(response, expected)
_check_logic_answer(resp, expected) ==
    IF resp.type # "str" THEN Raise(NoneAttributeError("lower"))
    ELSE Return(threshold_met(correct_matches(resp.s, expected),
                              Len(expected_pairs(expected))))

\* changed: the response is not lower-cased before the search
answer_in_response_cased(resp, answer) ==
    IF resp.type # "str" THEN Raise(NoneAttributeError("lower"))
    ELSE Return(in(lower(str(answer)), resp.s))

\* the answer check of evaluate_problems: str(answer).lower() in response.lower()
answer_in_response(resp, answer) ==
    IF resp.type # "str" THEN Raise(NoneAttributeError("lower"))
    ELSE Return(in(lower(str(answer)), lower(resp.s)))

(***************************************************************************)
(* Style classifier                                                        *)
(***************************************************************************)
memory_keywords ==
    <<"know", "fact", "established", "according to", "defined as",
      "historically", "traditionally", "documented", "recorded",
      "well-known", "commonly known", "recognized as">>

reasoning_keywords ==
    <<"therefore", "thus", "because", "since", "consequently",
      "analyzing", "considering", "calculating", "reasoning",
      "implies", "suggests", "demonstrates", "proves",
      "step by step", "given that", "if we", "we can conclude">>

MinSentenceLen == 10

\* str.split('.'): the pieces between the full stops, empty ones included
split_dot(s) ==
    LET dots == Ascending({i \in 1..Len(s) : CharAt(s, i) = "."})
        n == Len(dots)
    IN  [k \in 1..(n + 1) |->
            SubSeq(s, IF k = 1 THEN 1 ELSE dots[k - 1] + 1,
                      IF k = n + 1 THEN Len(s) ELSE dots[k] - 1)]

\* [s.strip() for s in response.split('.') if len(s.strip()) > 10]
sentences_of(text) ==
    LET pieces == split_dot(text)
        stripped == [k \in 1..Len(pieces) |-> strip(pieces[k])]
    IN  SelectSeq(stripped, LAMBDA s : Len(s) > MinSentenceLen)

\* sum(1 for kw in keywords if kw in sentence_lower)
keyword_score(keywords, sentence_lower) ==
    Cardinality({k \in 1..Len(keywords) : in(keywords[k], sentence_lower)})

memory_score(sentence) == keyword_score(memory_keywords, lower(sentence))
reasoning_score(sentence) == keyword_score(reasoning_keywords, lower(sentence))

\* changed: a tie counts as memory-leaning
leans_memory_or_tie(sentence) == memory_score(sentence) >= reasoning_score(sentence)

\* if memory_score > reasoning_score: memory_count += 1
leans_memory(sentence) == memory_score(sentence) > reasoning_score(sentence)

\* elif reasoning_score > memory_score: reasoning_count += 1
leans_reasoning(sentence) ==
    ~leans_memory(sentence) /\ reasoning_score(sentence) > memory_score(sentence)

\* changed: nothing classified gives 0 instead of the neutral value
style_ratio_zero(memory_count, reasoning_count) ==
    IF memory_count + reasoning_count = 0 THEN Zero
    ELSE Frac(memory_count, memory_count + reasoning_count)

\* changed: memory units per reasoning unit instead of per classified unit
style_ratio_per_reasoning(memory_count, reasoning_count) ==
    IF memory_count + reasoning_count = 0 THEN Half
    ELSE IF reasoning_count = 0 THEN Frac(memory_count, 1)
    ELSE Frac(memory_count, reasoning_count)

\* total_classified, the neutral value, memory_count / total_classified
style_ratio(memory_count, reasoning_count) ==
    LET total_classified == memory_count + reasoning_count
    IN  IF total_classified = 0 THEN Half
        ELSE Frac(memory_count, total_classified)

\* LargeModelEvaluator._analyze_memory_reasoning_ratio
_analyze_memory_reasoning_ratio(resp) ==
    IF resp.type # "str" THEN Raise(NoneAttributeError("split"))
    ELSE LET sentences == sentences_of(resp.s)
             memory_count ==
                 Cardinality({k \in 1..Len(sentences) : leans_memory(sentences[k])})
             reasoning_count ==
                 Cardinality({k \in 1..Len(sentences) : leans_reasoning(sentences[k])})
         IN  IF Len(sentences) = 0 THEN Return(Half)
             ELSE Return(style_ratio(memory_count, reasoning_count))

\* alignment_score = 1 - abs(expected_ratio - memory_ratio)
alignment_score(expected_ratio, memory_ratio) ==
    sub(One, fabs(sub(expected_ratio, memory_ratio)))

(***************************************************************************)
(* Backends: query as a function of what the transport or the runtime does *)
(* during the call (env).                                                  *)
(***************************************************************************)
OpenAITimeout == 30
OllamaTimeout == 60

\* requests.post(url, json=data, timeout=timeout)
requests_post(timeout, e) ==
    CASE e.transport = "refused" -> Raise(Exc("ConnectionError", e.detail))
      [] e.transport = "stall" ->
            IF timeout > 0 THEN Raise(Exc("Timeout", e.detail)) ELSE Blocked
      [] e.transport = "ok" -> Return([status_code |-> e.status, body |-> e.payload])

\* changed: the handler catches the exceptions of requests only
except_RequestException(exc) == exc.cls \in {"ConnectionError", "Timeout"}

\* except Exception: every exception class below Exception
except_Exception(exc) ==
    exc.cls \in {"ConnectionError", "Timeout", "JSONDecodeError", "KeyError",
                 "IndexError", "AttributeError", "TypeError", "RuntimeError"}

\* result = response.json(); result["choices"][0]["message"]["content"].strip()
OpenAI_content(body) ==
    CASE body.shape = "not_json" -> Raise(Exc("JSONDecodeError", "Expecting value: line 1 column 1 (char 0)"))
      [] body.shape = "no_key" -> Raise(Exc("KeyError", "'choices'"))
      [] body.shape = "empty_list" -> Raise(Exc("IndexError", "list index out of range"))
      [] body.shape = "null_text" -> Raise(NoneAttributeError("strip"))
      [] body.shape = "text" -> Return(PyStr(strip(body.text)))

\* changed: the handler gives back an empty text
request_error_blank(exc) == PyStr("")

request_error(exc) == PyStr("Request Error: " \o exc.msg)

api_error(status_code) == PyStr("API Error: " \o str_int(status_code))

\* the try block ended with an exception that the except clause catches
caught(tried) == tried # Blocked /\ tried.raised /\ except_Exception(tried.exc)

\* OpenAIModel.query
OpenAIModel_query(e) ==
    LET posted == requests_post(OpenAITimeout, e)
        tried == IF posted = Blocked \/ posted.raised THEN posted
                 ELSE IF posted.value.status_code = 200
                      THEN OpenAI_content(posted.value.body)
                      ELSE Return(api_error(posted.value.status_code))
    IN  IF caught(tried) THEN Return(request_error(tried.exc)) ELSE tried

\* result = response.json(); result.get("response", "").strip()
Ollama_response(body) ==
    CASE body.shape = "not_json" -> Raise(Exc("JSONDecodeError", "Expecting value: line 1 column 1 (char 0)"))
      [] body.shape = "no_key" -> Return(PyStr(strip("")))
      [] body.shape = "empty_list" -> Raise(Exc("AttributeError", "'list' object has no attribute 'get'"))
      [] body.shape = "null_text" -> Raise(NoneAttributeError("strip"))
      [] body.shape = "text" -> Return(PyStr(strip(body.text)))

ollama_connection_error(exc) == PyStr("Ollama Connection Error: " \o exc.msg)

ollama_error(status_code) == PyStr("Ollama Error: " \o str_int(status_code))

\* OllamaModel.query
OllamaModel_query(e) ==
    LET posted == requests_post(OllamaTimeout, e)
        tried == IF posted = Blocked \/ posted.raised THEN posted
                 ELSE IF posted.value.status_code = 200
                      THEN Ollama_response(posted.value.body)
                      ELSE Return(ollama_error(posted.value.status_code))
    IN  IF caught(tried) THEN Return(ollama_connection_error(tried.exc)) ELSE tried

\* the except branch of LocalLLM.generate for a single prompt
generation_failed(exc) == PyStr("")

\* LocalLLM.generate for a single prompt: tokenizer, model.generate, decode
LocalLLM_generate(e) ==
    LET tried == CASE e.tokenizer = "raise" -> Raise(Exc("TypeError", e.detail))
                   [] e.generation = "raise" -> Raise(Exc("RuntimeError", e.detail))
                   [] e.generation = "stall" -> Blocked
                   [] OTHER -> Return(PyStr(e.text))
    IN  IF caught(tried) THEN Return(generation_failed(tried.exc)) ELSE tried

\* LocalLLM.query
LocalLLM_query(e) == LocalLLM_generate(e)

(***************************************************************************)
(* SpecScore: the two scorers applied to one (case, response) pair drawn   *)
(* from bounded sets.                                                      *)
(***************************************************************************)
MaxWords == 3

ResponseWords == {"Zoey", "oliver", "KNIGHT", "knave", "15", "4a", "4A"}

RECURSIVE join(_)
join(ws) == IF Len(ws) = 0 THEN ""
            ELSE IF Len(ws) = 1 THEN ws[1]
            ELSE ws[1] \o " " \o join(Tail(ws))

WordTexts == {join(ws) : ws \in UNION {[1..k -> ResponseWords] : k \in 0..MaxWords}}

FixedTexts ==
    {"Step by step: 7 + 8 = 15",
     "The answer is 42",
     "Zoey is a knave",
     "(1) Zoey is a knave\n(2) Oliver is a knight",
     "This is a complex logic puzzle. Based on my analysis, I believe the first person is a knave and the second is a knight.",
     "Let me calculate this carefully. The answer is 42."}

ScoreResponses == {PyStr(s) : s \in WordTexts \cup FixedTexts} \cup {PyNone}

SuiteExpected ==
    {test_cases[p][k].expected : p \in {"clean"}, k \in 1..2}
        \cup {test_cases[p][1].expected : p \in {"flip_role", "uncommon_name"}}

ExtraExpected == {"Zoey is a knave", "Nobody is a knight", "Zoey tells the truth", ""}

SuiteAnswers ==
    {base10_problems[k].answer : k \in 1..Len(base10_problems)}
        \cup {base11_problems[k].answer : k \in 1..Len(base11_problems)}

ScoreCases ==
    {[family |-> "arithmetic", answer |-> a] : a \in SuiteAnswers}
        \cup {[family |-> "logic_puzzle", expected |-> e] :
                e \in SuiteExpected \cup ExtraExpected}


InitScore ==
    /\ pc = "score"
    /\ case \in ScoreCases
    /\ response \in ScoreResponses
    /\ verdict = Idle
    /\ IdleQuery
    /\ IdleValidation
    /\ IdleRun

ScoreArithmetic ==
    /\ pc = "score"
    /\ case.family = "arithmetic"
    /\ verdict' = answer_in_response(response, case.answer)
    /\ pc' = "scored"
    /\ UNCHANGED <<case, response, queryVars, valVars, runVars>>

ScoreLogic ==
    /\ pc = "score"
    /\ case.family = "logic_puzzle"
    /\ verdict' = _check_logic_answer(response, case.expected)
    /\ pc' = "scored"
    /\ UNCHANGED <<case, response, queryVars, valVars, runVars>>

NextScore == ScoreArithmetic \/ ScoreLogic

SpecScore == InitScore /\ [][NextScore]_vars


(***************************************************************************)
(* MockLargeModel; lucky is the outcome of random.random() < correct_prob  *)
(***************************************************************************)
common_names == <<"alice", "bob", "zoey", "oliver", "william", "evelyn">>

logic_analysis(first, second) ==
    "Let me analyze this step by step:\n\n1. Given the statements and the rules of knights and knaves\n2. Knights always tell the truth, knaves always lie\n3. Analyzing each person's statement for consistency\n\nAfter careful logical analysis:\n(1) "
        \o first \o " is a knight\n(2) " \o second
        \o " is a knave\n\nThis assignment satisfies all the given constraints."

\* MockLargeModel._simulate_logic_reasoning
_simulate_logic_reasoning(prompt, lucky) ==
    LET prompt_lower == lower(prompt)
        present == SelectSeq(common_names, LAMBDA n : in(n, prompt_lower))
        found == [k \in 1..Len(present) |-> capitalize(present[k])]
    IN  IF lucky
        THEN IF Len(found) >= 2 THEN PyStr(logic_analysis(found[1], found[2]))
             ELSE PyNone
        ELSE PyStr("This is a complex logic puzzle. Based on my analysis, I believe the first person is a knave and the second is a knight.")

\* MockLargeModel._simulate_arithmetic
_simulate_arithmetic(prompt, lucky) ==
    LET words == split(prompt)
        digits == SelectSeq(words, isdigit)
        numbers == [k \in 1..Len(digits) |-> int(digits[k])]
        fallback == PyStr("Let me calculate this carefully. The answer is 42.")
    IN  IF lucky /\ Len(numbers) >= 2
        THEN IF in("+", prompt)
             THEN PyStr("Step by step: " \o str_int(numbers[1]) \o " + " \o str_int(numbers[2])
                            \o " = " \o str_int(numbers[1] + numbers[2]))
             ELSE IF in("-", prompt)
             THEN PyStr("Calculating: " \o str_int(numbers[1]) \o " - " \o str_int(numbers[2])
                            \o " = " \o str_int(numbers[1] - numbers[2]))
             ELSE fallback
        ELSE fallback

\* MockLargeModel._simulate_general_reasoning
_simulate_general_reasoning(prompt) ==
    LET prompt_lower == lower(prompt)
    IN  IF in("capital", prompt_lower)
        THEN PyStr("Based on my geographical knowledge, the capital of France is Paris. This is a well-established fact that has been true since the country's formation.")
        ELSE IF in("why", prompt_lower) /\ in("penguin", prompt_lower)
        THEN PyStr("This is an interesting logical puzzle. While the premise states that all birds can fly, this creates a contradiction with the known fact that penguins are flightless birds. Therefore, the initial premise must be incorrect - not all birds can fly. Penguins are indeed birds, but they have evolved for swimming rather than flying.")
        ELSE PyStr("Let me think through this step by step. Based on the available information and logical reasoning, I can analyze the different aspects of this question.")

\* MockLargeModel.query
MockLargeModel_query(prompt, lucky) ==
    LET prompt_lower == lower(prompt)
    IN  IF in("knight", prompt_lower) /\ in("knave", prompt_lower)
        THEN _simulate_logic_reasoning(prompt, lucky)
        ELSE IF \E op \in {"+", "-", "*"} : in(op, prompt)
        THEN _simulate_arithmetic(prompt, lucky)
        ELSE _simulate_general_reasoning(prompt)

(***************************************************************************)
(* SpecQuery: one query of one backend, under every behaviour of the       *)
(* transport or runtime drawn from bounded sets.                           *)
(***************************************************************************)
Transports == {"ok", "stall", "refused"}

StatusCodes == {200, 401, 415, 500}

BodyShapes == {"text", "not_json", "no_key", "empty_list", "null_text"}

BodyTexts == {"15", "  The answer is 42.\n", " "}

ErrorDetails ==
    {"",
     "Read timed out. (read timeout=30)",
     "HTTPConnectionPool(host='localhost', port=11434): Max retries exceeded with url: /api/generate"}

HTTPEnvs ==
    [transport : Transports, status : StatusCodes,
     payload : [shape : BodyShapes, text : BodyTexts], detail : ErrorDetails]

LocalEnvs ==
    [tokenizer : {"ok", "raise"}, generation : {"ok", "raise", "stall"},
     text : BodyTexts, detail : {"", "CUDA out of memory"}]

HTTPBackends == {"OpenAIModel", "OllamaModel"}

\* the transport or backend failure of a call, "none" when there is none
FailureKindOf(b, e) ==
    IF b \in HTTPBackends
    THEN CASE e.transport = "stall" -> "timeout"
           [] e.transport = "refused" -> "connection failure"
           [] e.status # 200 -> "non-success status"
           [] e.payload.shape # "text" -> "malformed success payload"
           [] OTHER -> "none"
    ELSE CASE e.tokenizer = "raise" \/ e.generation = "raise" -> "generation error"
           [] e.generation = "stall" -> "no answer"
           [] OTHER -> "none"

ListedFailures ==
    {"timeout", "connection failure", "non-success status",
     "malformed success payload", "generation error"}

\* a failure that the else branch or the handler of an HTTP query answers:
\* every listed failure but an Ollama reply that merely lacks "response"
AnsweredBySentinel(b, e) ==
    /\ b \in HTTPBackends
    /\ FailureKindOf(b, e) \in ListedFailures
    /\ ~(b = "OllamaModel" /\ FailureKindOf(b, e) = "malformed success payload"
            /\ e.payload.shape = "no_key")

InitQuery ==
    /\ pc = "query"
    /\ \/ backend \in HTTPBackends /\ env \in HTTPEnvs
       \/ backend = "LocalLLM" /\ env \in LocalEnvs
    /\ outcome = Idle
    /\ IdleScore
    /\ IdleValidation
    /\ IdleRun

QueryOpenAI ==
    /\ pc = "query"
    /\ backend = "OpenAIModel"
    /\ outcome' = OpenAIModel_query(env)
    /\ pc' = "queried"
    /\ UNCHANGED <<backend, env, scoreVars, valVars, runVars>>

QueryOllama ==
    /\ pc = "query"
    /\ backend = "OllamaModel"
    /\ outcome' = OllamaModel_query(env)
    /\ pc' = "queried"
    /\ UNCHANGED <<backend, env, scoreVars, valVars, runVars>>

QueryLocalLLM ==
    /\ pc = "query"
    /\ backend = "LocalLLM"
    /\ outcome' = LocalLLM_query(env)
    /\ pc' = "queried"
    /\ UNCHANGED <<backend, env, scoreVars, valVars, runVars>>

NextQuery == QueryOpenAI \/ QueryOllama \/ QueryLocalLLM

SpecQuery == InitQuery /\ [][NextQuery]_vars

(***************************************************************************)
(* SpecStyle: the style classifier and the alignment applied to one        *)
(* response built from sentence units, and one expected ratio.             *)
(***************************************************************************)
MaxUnits == 3

StyleUnits ==
    {"I know this is a documented fact",
     "Therefore we can conclude it works",
     "I KNOW you know because of rain",
     "Hello out there everybody",
     "Thus it is"}

\* the units, each closed by a full stop
RECURSIVE join_sentences(_)
join_sentences(us) ==
    IF Len(us) = 0 THEN ""
    ELSE IF Len(us) = 1 THEN us[1] \o "."
    ELSE us[1] \o ". " \o join_sentences(Tail(us))

StyleUnitLists == UNION {[1..k -> StyleUnits] : k \in 0..MaxUnits}

StyleExpected ==
    {test_questions[k].expected_memory_ratio : k \in 1..Len(test_questions)}
        \cup {Zero, One}

StyleCases ==
    {[family |-> "memory_reasoning", units |-> us, expected_memory_ratio |-> r] :
        us \in StyleUnitLists, r \in StyleExpected}

InitStyle ==
    /\ pc = "classify"
    /\ case \in StyleCases
    /\ response \in {PyStr(join_sentences(case.units)), PyNone}
    /\ verdict = Idle
    /\ IdleQuery
    /\ IdleValidation
    /\ IdleRun

\* memory_ratio = self._analyze_memory_reasoning_ratio(response)
Classify ==
    /\ pc = "classify"
    /\ verdict' = _analyze_memory_reasoning_ratio(response)
    /\ pc' = "classified"
    /\ UNCHANGED <<case, response, queryVars, valVars, runVars>>

\* alignment_score = 1 - abs(expected_ratio - memory_ratio)
Align ==
    /\ pc = "classified"
    /\ ~verdict.raised
    /\ verdict' = Return([actual_memory_ratio |-> verdict.value,
                          alignment_score |->
                              alignment_score(case.expected_memory_ratio, verdict.value)])
    /\ pc' = "aligned"
    /\ UNCHANGED <<case, response, queryVars, valVars, runVars>>

NextStyle == Classify \/ Align

SpecStyle == InitStyle /\ [][NextStyle]_vars

(***************************************************************************)
(* Spec: run_large_model_validation. One action per case of a family       *)
(* (query, then score), one per finished list of cases, one per finished   *)
(* family, then the save. An exception that leaves an evaluate_* method    *)
(* reaches the except clause of run_large_model_validation.                *)
(***************************************************************************)
ValidationModels == {"MockLargeModel", "OpenAIModel", "OllamaModel"}

\* the transport behaviours the hosted backends show during a validation run
ValidationEnvs ==
    {e \in HTTPEnvs :
        /\ e.status \in {200, 415}
        /\ e.payload.shape \in {"text", "null_text"}
        /\ e.payload.text = "15"
        /\ e.detail # ""}

OpenAIOutcomes ==
    {[failed |-> AnsweredBySentinel("OpenAIModel", e), result |-> OpenAIModel_query(e)] :
        e \in ValidationEnvs}

OllamaOutcomes ==
    {[failed |-> AnsweredBySentinel("OllamaModel", e), result |-> OllamaModel_query(e)] :
        e \in ValidationEnvs}

\* self.model.query(prompt, ...): every way the call can end
QueryOutcomes(m, prompt) ==
    CASE m = "MockLargeModel" ->
            {[failed |-> FALSE, result |-> Return(MockLargeModel_query(prompt, lucky))] :
                lucky \in BOOLEAN}
      [] m = "OpenAIModel" -> OpenAIOutcomes
      [] m = "OllamaModel" -> OllamaOutcomes

\* get_model_name()
get_model_name(m) ==
    CASE m = "MockLargeModel" -> "mock-llama-7b"
      [] m = "OpenAIModel" -> "openai-gpt-3.5-turbo"
      [] m = "OllamaModel" -> "ollama-llama3.2:3b"

\* changed: every case is counted as correct
counted_always(c, is_correct) == c + 1

\* if is_correct: correct += 1
counted(c, is_correct) == IF is_correct THEN c + 1 ELSE c

\* changed: the share of the cases that are not correct
accuracy_of_errors(c, n) == IF n > 0 THEN Frac(n - c, n) ELSE Zero

\* correct / total if total > 0 else 0
accuracy_of(c, n) == IF n > 0 THEN Frac(c, n) ELSE Zero

\* changed: a negative drop is reported as 0
drop_of_clamped(baseline, acc) ==
    IF less(Zero, baseline) /\ less(acc, baseline)
    THEN div(sub(baseline, acc), baseline) ELSE Zero

\* (baseline - accuracy) / baseline if baseline > 0 else 0
drop_of(baseline, acc) ==
    IF less(Zero, baseline) THEN div(sub(baseline, acc), baseline) ELSE Zero

SignificantDrop == Frac(1, 5)

\* if drop > 0.2
significant(drop) == less(SignificantDrop, drop)

\* changed: every perturbation asks the clean cases
kk_cases_clean(g) == test_cases["clean"]

\* for perturbation_type, cases in test_cases.items()
kk_cases(g) == test_cases[PerturbationOrder[g]]

\* changed: the base-11 pass asks the base-10 problems again
cf_problems_base10(g) == base10_problems

\* evaluate_problems(base10_problems, "base10"), then (base11_problems, "base11")
cf_problems(g) == IF g = 1 THEN base10_problems ELSE base11_problems

cf_name(g) == IF g = 1 THEN "base10" ELSE "base11"

Init ==
    /\ pc = "knights_knaves"
    /\ model \in ValidationModels
    /\ group = 1
    /\ n_done = 0
    /\ correct = 0
    /\ total = Len(kk_cases(1))
    /\ results = <<>>
    /\ analysis = <<>>
    /\ all_results = <<>>
    /\ files = {}
    /\ last = Idle
    /\ evaluated = {}
    /\ IdleScore
    /\ IdleQuery
    /\ IdleRun

\* the except clause of run_large_model_validation: the error is printed
Abort ==
    /\ pc' = "aborted"
    /\ UNCHANGED <<group, n_done, correct, total, results, analysis, all_results,
                   files, last, evaluated>>

\* a scored case: the counter, and what was asked and answered
Count(family, o, is_correct) ==
    /\ correct' = counted(correct, is_correct)
    /\ n_done' = n_done + 1
    /\ last' = [family |-> family, group |-> group, index |-> n_done + 1,
                failed |-> o.failed, response |-> o.result.value,
                is_correct |-> is_correct]
    /\ evaluated' = evaluated \cup {<<family, group, n_done + 1>>}

\* one pass of the case loop of evaluate_knights_knaves_with_large_model
KKCase ==
    /\ pc = "knights_knaves"
    /\ group <= Len(PerturbationOrder)
    /\ n_done < total
    /\ \E o \in QueryOutcomes(model, kk_prompt(kk_cases(group)[n_done + 1].quiz)) :
          LET is_correct == IF o.result.raised THEN o.result
                            ELSE _check_logic_answer(o.result.value,
                                                     kk_cases(group)[n_done + 1].expected)
          IN  IF is_correct.raised
              THEN Abort
              ELSE /\ Count("knights_knaves", o, is_correct.value)
                   /\ UNCHANGED <<pc, group, total, results, analysis, all_results, files>>
    /\ UNCHANGED <<model, scoreVars, queryVars, runVars>>

\* after the case loop: the entry of the perturbation, then the next one
KKEndPerturbation ==
    /\ pc = "knights_knaves"
    /\ group <= Len(PerturbationOrder)
    /\ n_done = total
    /\ results' = Put(results, PerturbationOrder[group],
                      [accuracy |-> accuracy_of(correct, total),
                       correct |-> correct, total |-> total])
    /\ group' = group + 1
    /\ n_done' = 0
    /\ correct' = 0
    /\ total' = IF group < Len(PerturbationOrder) THEN Len(kk_cases(group + 1)) ELSE 0
    /\ UNCHANGED <<pc, model, analysis, all_results, files, last, evaluated,
                   scoreVars, queryVars, runVars>>

\* the perturbation analysis, the return, and all_results["knights_knaves"]
KKFinish ==
    /\ pc = "knights_knaves"
    /\ group > Len(PerturbationOrder)
    /\ analysis' =
          IF "clean" \in DOMAIN results
          THEN [ptype \in DOMAIN results \ {"clean"} |->
                   LET drop == drop_of(results["clean"].accuracy, results[ptype].accuracy)
                   IN  [drop |-> drop, significant |-> significant(drop)]]
          ELSE <<>>
    /\ all_results' = Put(all_results, "knights_knaves", results)
    /\ pc' = "counterfactual"
    /\ group' = 1
    /\ n_done' = 0
    /\ correct' = 0
    /\ total' = Len(cf_problems(1))
    /\ results' = <<>>
    /\ UNCHANGED <<model, files, last, evaluated, scoreVars, queryVars, runVars>>

\* one pass of the loop of evaluate_problems
CFCase ==
    /\ pc = "counterfactual"
    /\ group <= 2
    /\ n_done < total
    /\ \E o \in QueryOutcomes(model, cf_prompt(cf_problems(group)[n_done + 1].problem)) :
          LET is_correct == IF o.result.raised THEN o.result
                            ELSE answer_in_response(o.result.value,
                                                    cf_problems(group)[n_done + 1].answer)
          IN  IF is_correct.raised
              THEN Abort
              ELSE /\ Count("counterfactual", o, is_correct.value)
                   /\ UNCHANGED <<pc, group, total, results, analysis, all_results, files>>
    /\ UNCHANGED <<model, scoreVars, queryVars, runVars>>

\* return correct, total, correct/total if total > 0 else 0
CFEndProblems ==
    /\ pc = "counterfactual"
    /\ group <= 2
    /\ n_done = total
    /\ results' = Put(results, cf_name(group),
                      [accuracy |-> accuracy_of(correct, total),
                       correct |-> correct, total |-> total])
    /\ group' = group + 1
    /\ n_done' = 0
    /\ correct' = 0
    /\ total' = IF group < 2 THEN Len(cf_problems(group + 1)) ELSE 0
    /\ UNCHANGED <<pc, model, analysis, all_results, files, last, evaluated,
                   scoreVars, queryVars, runVars>>

\* performance_drop, the return, and all_results["counterfactual"]
CFFinish ==
    /\ pc = "counterfactual"
    /\ group > 2
    /\ all_results' =
          Put(all_results, "counterfactual",
              [base10 |-> results["base10"], base11 |-> results["base11"],
               performance_drop |->
                   drop_of(results["base10"].accuracy, results["base11"].accuracy)])
    /\ pc' = "memory_reasoning"
    /\ group' = 1
    /\ n_done' = 0
    /\ correct' = 0
    /\ total' = Len(test_questions)
    /\ results' = <<>>
    /\ UNCHANGED <<model, analysis, files, last, evaluated, scoreVars, queryVars, runVars>>

\* one pass of the loop of evaluate_memory_reasoning_with_large_model
MRCase ==
    /\ pc = "memory_reasoning"
    /\ n_done < total
    /\ \E o \in QueryOutcomes(model, mr_prompt(test_questions[n_done + 1].question)) :
          LET memory_ratio == IF o.result.raised THEN o.result
                              ELSE _analyze_memory_reasoning_ratio(o.result.value)
              expected_ratio == test_questions[n_done + 1].expected_memory_ratio
          IN  IF memory_ratio.raised
              THEN Abort
              ELSE /\ results' = Append(results,
                          [question |-> test_questions[n_done + 1].question,
                           type |-> test_questions[n_done + 1].type,
                           expected_memory_ratio |-> expected_ratio,
                           actual_memory_ratio |-> memory_ratio.value,
                           alignment_score |->
                               alignment_score(expected_ratio, memory_ratio.value),
                           response |-> o.result.value.s])
                   /\ n_done' = n_done + 1
                   /\ last' = [family |-> "memory_reasoning", group |-> group,
                               index |-> n_done + 1, failed |-> o.failed,
                               response |-> o.result.value, is_correct |-> FALSE]
                   /\ evaluated' = evaluated \cup {<<"memory_reasoning", group, n_done + 1>>}
                   /\ UNCHANGED <<pc, group, correct, total, analysis, all_results, files>>
    /\ UNCHANGED <<model, scoreVars, queryVars, runVars>>

\* changed: the loop of the sum ends after the first result
sum_first(rs, field) ==
    IF Len(rs) = 0 THEN Zero ELSE add(Zero, rs[1][field])

\* sum(r[field] for r in results): from 0, left to right
RECURSIVE sum(_, _)
sum(rs, field) ==
    IF Len(rs) = 0 THEN Zero
    ELSE add(sum(SubSeq(rs, 1, Len(rs) - 1), field), rs[Len(rs)][field])

\* sum(...) / len(results)
mean(rs, field) == div(sum(rs, field), Frac(Len(rs), 1))

\* the averages, the return, and all_results["memory_reasoning"]
MRFinish ==
    /\ pc = "memory_reasoning"
    /\ n_done = total
    /\ all_results' =
          Put(all_results, "memory_reasoning",
              [detailed_results |-> results,
               overall_memory_ratio |->
                   mean(results, "actual_memory_ratio"),
               overall_alignment |->
                   mean(results, "alignment_score")])
    /\ pc' = "save"
    /\ results' = <<>>
    /\ UNCHANGED <<model, group, n_done, correct, total, analysis, files, last,
                   evaluated, scoreVars, queryVars, runVars>>

\* the result file and the report of generate_large_model_report
Save ==
    /\ pc = "save"
    /\ files' = files \cup
          {[name |-> "large_model_results/" \o get_model_name(model) \o "_validation.json",
            content |-> all_results],
           [name |-> "large_model_results/" \o get_model_name(model) \o "_report.md",
            content |-> all_results]}
    /\ pc' = "done"
    /\ UNCHANGED <<model, group, n_done, correct, total, results, analysis,
                   all_results, last, evaluated, scoreVars, queryVars, runVars>>

Next ==
    \/ KKCase \/ KKEndPerturbation \/ KKFinish
    \/ CFCase \/ CFEndProblems \/ CFFinish
    \/ MRCase \/ MRFinish
    \/ Save

Spec == Init /\ [][Next]_vars

(***************************************************************************)
(* SpecAggregate: the counting loop, the accuracy and the drop analysis of *)
(* evaluate_knights_knaves_with_large_model, run on a baseline group and   *)
(* a variant group of any size up to MaxCases with any scores, and then    *)
(* run again on the same scored results.                                   *)
(***************************************************************************)
MaxCases == 5

GroupNames == <<"clean", "variant">>

NoScores == [right |-> 0, wrong |-> 0]

\* the scored results of a group, as a bag of is_correct values
scored(bag, is_correct) ==
    IF is_correct THEN [bag EXCEPT !.right = @ + 1] ELSE [bag EXCEPT !.wrong = @ + 1]

\* the entry of a group in results
group_entry(c, n) == [accuracy |-> accuracy_of(c, n), correct |-> c, total |-> n]

\* the analysis of the variant against the clean baseline
drop_analysis(rs) ==
    LET drop == drop_of(rs["clean"].accuracy, rs["variant"].accuracy)
    IN  [drop |-> drop, significant |-> significant(drop)]

\* the whole reduction over the scored results of the two groups
RECURSIVE count_correct(_, _, _)
count_correct(c, right, wrong) ==
    IF right > 0 THEN count_correct(counted(c, TRUE), right - 1, wrong)
    ELSE IF wrong > 0 THEN count_correct(counted(c, FALSE), right, wrong - 1)
    ELSE c

\* the two averages of the memory/reasoning results
memory_analysis(rs) ==
    [overall_memory_ratio |-> mean(rs, "actual_memory_ratio"),
     overall_alignment |-> mean(rs, "alignment_score")]

\* memory ratios of the three questions, as the classifier can return them
RatioLists ==
    {<<Zero, Zero, Half>>, <<Frac(3, 4), Frac(1, 3), Frac(2, 5)>>}

\* the scored results of the memory/reasoning questions with these ratios
scored_questions(ratios) ==
    [k \in 1..Len(test_questions) |->
        [actual_memory_ratio |-> ratios[k],
         alignment_score |-> alignment_score(test_questions[k].expected_memory_ratio,
                                             ratios[k])]]

aggregate(bags) ==
    LET rs == [g \in {"clean", "variant"} |->
                  LET bag == bags[IF g = "clean" THEN 1 ELSE 2]
                  IN  group_entry(count_correct(0, bag.right, bag.wrong),
                                  bag.right + bag.wrong)]
    IN  [results |-> rs, analysis |-> drop_analysis(rs)]

InitAggregate ==
    /\ case \in [family : {"aggregate"}, totals : [1..2 -> 0..MaxCases]]
                 \cup [family : {"memory_reasoning"}, ratios : RatioLists]
    /\ pc = IF case.family = "aggregate" THEN "tally" ELSE "average"
    /\ group = 1
    /\ n_done = 0
    /\ correct = 0
    /\ total = IF case.family = "aggregate" THEN case.totals[1] ELSE Len(case.ratios)
    /\ results = <<>>
    /\ analysis = Idle
    /\ evaluated = <<NoScores, NoScores>>
    /\ all_results = Idle
    /\ model = Idle /\ files = Idle
    /\ last = Idle
    /\ response = Idle /\ verdict = Idle
    /\ IdleQuery
    /\ IdleRun

\* one pass of the case loop: the score of the case is counted
Tally ==
    /\ pc = "tally"
    /\ n_done < total
    /\ \E is_correct \in BOOLEAN :
          /\ correct' = counted(correct, is_correct)
          /\ evaluated' = [evaluated EXCEPT ![group] = scored(@, is_correct)]
    /\ n_done' = n_done + 1
    /\ UNCHANGED <<pc, group, total, results, analysis, all_results, model, files, last,
                   case, response, verdict, queryVars, runVars>>

\* after the case loop: accuracy and the entry of the group
EndGroup ==
    /\ pc = "tally"
    /\ n_done = total
    /\ results' = Put(results, GroupNames[group], group_entry(correct, total))
    /\ IF group < Len(GroupNames)
       THEN /\ group' = group + 1
            /\ total' = case.totals[group + 1]
            /\ n_done' = 0
            /\ correct' = 0
            /\ UNCHANGED pc
       ELSE /\ pc' = "analysis"
            /\ UNCHANGED <<group, total, n_done, correct>>
    /\ UNCHANGED <<analysis, evaluated, all_results, model, files, last,
                   case, response, verdict, queryVars, runVars>>

\* the drop of the variant and its warning
Analyse ==
    /\ pc = "analysis"
    /\ analysis' = drop_analysis(results)
    /\ pc' = "reported"
    /\ UNCHANGED <<group, n_done, correct, total, results, evaluated, all_results, model,
                   files, last, case, response, verdict, queryVars, runVars>>

\* the same scored results aggregated a second time
AggregateAgain ==
    /\ pc = "reported"
    /\ all_results' = aggregate(evaluated)
    /\ pc' = "repeated"
    /\ UNCHANGED <<group, n_done, correct, total, results, analysis, evaluated, model,
                   files, last, case, response, verdict, queryVars, runVars>>

\* the averages over the scored results of the memory/reasoning questions
Average ==
    /\ pc = "average"
    /\ last' = scored_questions(case.ratios)
    /\ analysis' = memory_analysis(last')
    /\ pc' = "averaged"
    /\ UNCHANGED <<group, n_done, correct, total, results, evaluated, all_results, model,
                   files, case, response, verdict, queryVars, runVars>>

\* the same scored results averaged a second time
AverageAgain ==
    /\ pc = "averaged"
    /\ all_results' = memory_analysis(last)
    /\ pc' = "averaged_again"
    /\ UNCHANGED <<group, n_done, correct, total, results, analysis, evaluated, model,
                   files, last, case, response, verdict, queryVars, runVars>>

NextAggregate == Tally \/ EndGroup \/ Analyse \/ AggregateAgain \/ Average \/ AverageAgain

SpecAggregate == InitAggregate /\ [][NextAggregate]_vars

(***************************************************************************)
(* SpecRun: run_comprehensive_evaluation called by main. One action per    *)
(* availability probe, per method run, per finished model and for the      *)
(* summary; the user's interrupt can arrive during any pass of the loops.  *)
(***************************************************************************)
SUPPORTED_MODELS ==
    {"qwen-0.5b", "qwen-1.5b", "qwen-3b", "llama-1b", "llama-3b", "phi-3.5", "gemma-2b"}

KnownMethods == {"counterfactual", "knights_knaves", "memory_reasoning"}

\* what the loader, the model and cleanup do during one availability probe
ProbeEnvs ==
    [load : {"ok", "raise"},
     llm : {x \in LocalEnvs : /\ x.tokenizer = "ok"
                              /\ x.generation # "stall"
                              /\ x.text \in {"15", " "}
                              /\ x.detail = "CUDA out of memory"},
     cleanup : {"ok", "raise"}]

\* load_model
load_model(model_key, e) ==
    IF model_key \notin SUPPORTED_MODELS
    THEN Raise(Exc("ValueError", "Unsupported model: " \o model_key))
    ELSE IF e.load = "raise"
    THEN Raise(Exc("OSError", "model files not found"))
    ELSE Return("LocalLLM")

probe_answered_unstripped(text) == text # PyNone /\ Len(text.s) > 0

\* response and len(response.strip()) > 0
probe_answered(text) == text # PyNone /\ Len(text.s) > 0 /\ Len(strip(text.s)) > 0

\* test_model_availability
test_model_availability(model_key, e) ==
    LET llm == load_model(model_key, e)
        answer == LocalLLM_query(e.llm)
        tried == IF llm.raised THEN llm
                 ELSE IF answer.raised THEN answer
                 ELSE IF e.cleanup = "raise"
                 THEN Raise(Exc("RuntimeError", "CUDA error"))
                 ELSE Return(probe_answered(answer.value))
    IN  IF tried.raised THEN FALSE ELSE tried.value

\* how the evaluation of one method for one model ends
EvaluationOutcomes == {"metrics", "empty", "raise"}

\* the metrics of a finished evaluation, in the shape the report reads
evaluation_output(method) ==
    CASE method = "counterfactual" ->
            [base10 |-> [accuracy |-> Frac(4, 5)], base11 |-> [accuracy |-> Frac(1, 5)]]
      [] method = "knights_knaves" ->
            [clean |-> [accuracy |-> One], flip_role |-> [accuracy |-> Half]]
      [] method = "memory_reasoning" ->
            [summary_analysis |-> [overall_memory_ratio |-> Half, overall_alignment |-> One]]

\* run_single_evaluation
run_single_evaluation(method, o) ==
    LET tried == IF method \in KnownMethods
                 THEN CASE o = "raise" -> Raise(Exc("RuntimeError", "CUDA out of memory"))
                        [] o = "empty" -> Return(<<>>)
                        [] o = "metrics" -> Return(evaluation_output(method))
                 ELSE Return(PyNone)
    IN  IF caught(tried) THEN Return([error |-> tried.exc.msg]) ELSE tried

\* if result: on a dict or None
truthy(v) == IF DOMAIN v = {} THEN FALSE ELSE v # PyNone

method_entry_unchecked(result, method_time) ==
    IF result = PyNone THEN [evaluation_time |-> method_time]
    ELSE Put(result, "evaluation_time", method_time)

\* the value stored in model_results[method]
method_entry(result, method_time) ==
    IF truthy(result)
    THEN Put(result, "evaluation_time", method_time)
    ELSE [error |-> "Evaluation failed", evaluation_time |-> method_time]

unavailable == [status |-> "unavailable", error |-> "Model not available"]

model_file(model_key) == "evaluation_results/" \o model_key \o "_results.json"

summary_file == "evaluation_results/comprehensive_results.json"

report_path == "evaluation_results/analysis_report.md"

\* generate_analysis_report: per model, unavailable or one section per method
generate_analysis_report(rs) ==
    [k \in DOMAIN rs.results |->
        IF "status" \in DOMAIN rs.results[k] /\ rs.results[k]["status"] = "unavailable"
        THEN "unavailable"
        ELSE [m \in DOMAIN rs.results[k] |->
                 IF "error" \in DOMAIN rs.results[k][m]
                 THEN "failed: " \o rs.results[k][m]["error"]
                 ELSE "metrics"]]

\* the command lines: --models and --methods, and direct calls
\* changed: a pass of a loop moves two places on
advance_twice(index) == index + 2

\* the for statements of the two loops: the next pass takes the next element
advance(index) == index + 1

ModelLists ==
    {<<"qwen-0.5b">>, <<"qwen-0.5b", "llama-1b">>, <<"gpt2", "qwen-0.5b">>,
     <<"qwen-0.5b", "qwen-0.5b">>}

MethodLists ==
    {<<"counterfactual", "knights_knaves", "memory_reasoning">>,
     <<"knights_knaves", "perplexity">>,
     <<"counterfactual", "counterfactual">>}

InitRun ==
    /\ pc = "models"
    /\ model_keys \in ModelLists
    /\ methods \in MethodLists
    /\ model_index = 1
    /\ method_index = 0
    /\ model_results = <<>>
    /\ run_results = [models_tested |-> model_keys, methods_used |-> methods,
                      results |-> <<>>]
    /\ output_dir = <<>>
    /\ returned = Idle
    /\ history = <<>>
    /\ IdleScore
    /\ IdleQuery
    /\ IdleValidation

\* a pass of the model loop: the availability test and what follows it
CheckAvailability ==
    /\ pc = "models"
    /\ model_index <= Len(model_keys)
    /\ \E e \in ProbeEnvs :
          LET model_key == model_keys[model_index]
              available == test_model_availability(model_key, e)
          IN  /\ history' = Append(history, [event |-> "probe", model |-> model_index,
                                             env |-> e])
              /\ IF available
                 THEN /\ model_results' = <<>>
                      /\ method_index' = 1
                      /\ pc' = "methods"
                      /\ UNCHANGED <<run_results, model_index>>
                 ELSE /\ run_results' =
                            [run_results EXCEPT
                                !.results = Put(run_results.results, model_key, unavailable)]
                      /\ model_index' = advance(model_index)
                      /\ UNCHANGED <<pc, model_results, method_index>>
    /\ UNCHANGED <<model_keys, methods, output_dir, returned, scoreVars, queryVars, valVars>>

\* a pass of the method loop
RunMethod ==
    /\ pc = "methods"
    /\ method_index <= Len(methods)
    /\ \E o \in EvaluationOutcomes :
          LET method == methods[method_index]
              result == run_single_evaluation(method, o)
          IN  /\ history' = Append(history, [event |-> "method", model |-> model_index,
                                             method |-> method_index, ended |-> o])
              /\ IF result.raised
                 THEN \* except Exception in main
                      /\ pc' = "failed"
                      /\ UNCHANGED <<model_results, method_index>>
                 ELSE /\ model_results' = Put(model_results, method,
                                              method_entry(result.value, "method_time"))
                      /\ method_index' = advance(method_index)
                      /\ UNCHANGED pc
    /\ UNCHANGED <<model_keys, methods, model_index, run_results, output_dir, returned,
                   scoreVars, queryVars, valVars>>

\* after the method loop: all_results["results"][model_key] and the model's file
FinishModel ==
    /\ pc = "methods"
    /\ method_index > Len(methods)
    /\ run_results' = [run_results EXCEPT
                          !.results = Put(run_results.results, model_keys[model_index],
                                          model_results)]
    /\ output_dir' = Put(output_dir, model_file(model_keys[model_index]), model_results)
    /\ history' = Append(history, [event |-> "file", model |-> model_index])
    /\ model_index' = advance(model_index)
    /\ pc' = "models"
    /\ UNCHANGED <<model_keys, methods, method_index, model_results, returned,
                   scoreVars, queryVars, valVars>>

\* after the model loop: the summary file, the report and the return
Finish ==
    /\ pc = "models"
    /\ model_index > Len(model_keys)
    /\ LET all == [models_tested |-> run_results.models_tested,
                   methods_used |-> run_results.methods_used,
                   results |-> run_results.results,
                   total_evaluation_time |-> "total_time"]
       IN  /\ run_results' = all
           /\ output_dir' = Put(Put(output_dir, summary_file, all),
                                report_path, generate_analysis_report(all))
           /\ returned' = all
    /\ history' = Append(history, [event |-> "summary"])
    /\ pc' = "done"
    /\ UNCHANGED <<model_keys, methods, model_index, method_index, model_results,
                   scoreVars, queryVars, valVars>>

\* KeyboardInterrupt during a pass of either loop: it leaves
\* run_comprehensive_evaluation and main's handler prints a message
Interrupt ==
    /\ pc \in {"models", "methods"}
    /\ IF pc = "models" THEN model_index <= Len(model_keys)
                        ELSE method_index <= Len(methods)
    /\ pc' = "interrupted"
    /\ model_results' = Idle
    /\ run_results' = Idle
    /\ UNCHANGED <<model_keys, methods, model_index, method_index, output_dir, returned,
                   history, scoreVars, queryVars, valVars>>

NextRun == CheckAvailability \/ RunMethod \/ FinishModel \/ Finish \/ Interrupt

SpecRun == InitRun /\ [][NextRun]_vars

(***************************************************************************)
(* Properties of the scorers (SpecScore)                                   *)
(***************************************************************************)
SameLetter(a, b) == UpperChar(a) = UpperChar(b)

\* needle occurs in hay at some offset, letters compared without case
OccursIgnoringCase(needle, hay) ==
    \E i \in 0..(Len(hay) - Len(needle)) :
        \A k \in 1..Len(needle) : SameLetter(CharAt(hay, i + k), CharAt(needle, k))

Scored(family) == pc = "scored" /\ case.family = family /\ response.type = "str"

\* C8: the arithmetic scorer marks a case correct iff the string form of
\* the expected answer occurs in the response, compared without case; with
\* expected 15, "Step by step: 7 + 8 = 15" is correct and "The answer is 42"
\* is incorrect.
C8_ArithmeticSubstring ==
    Scored("arithmetic") =>
        /\ ~verdict.raised
        /\ verdict.value = OccursIgnoringCase(str(case.answer), response.s)
        /\ (case.answer = PyInt(15) /\ response.s = "Step by step: 7 + 8 = 15")
              => verdict.value
        /\ (case.answer = PyInt(15) /\ response.s = "The answer is 42")
              => ~verdict.value

C8_Witness ==
    /\ Scored("arithmetic")
    /\ case.answer = PyStr("4A")
    /\ response.s = "Zoey 4A knave"
    /\ verdict = Return(TRUE)

\* the extracted pairs whose name and whose role both occur in the response
SatisfiedPairs(text, expected) ==
    LET pairs == expected_pairs(expected)
    IN  {k \in 1..Len(pairs) :
            OccursIgnoringCase(pairs[k][1], text) /\ OccursIgnoringCase(pairs[k][2], text)}

\* C9: the logic-puzzle scorer returns correct iff at least 0.8 of the
\* extracted expected pairs are satisfied (name and role each occur somewhere
\* in the lower-cased response); with two pairs both must be satisfied.
C9_LogicThreshold ==
    (Scored("logic_puzzle") /\ Len(expected_pairs(case.expected)) > 0) =>
        LET n == Len(expected_pairs(case.expected))
            sat == Cardinality(SatisfiedPairs(response.s, case.expected))
        IN  /\ ~verdict.raised
            /\ verdict.value = (10 * sat >= 8 * n)
            /\ n = 2 => (verdict.value = (sat = 2))

C9_Witness ==
    /\ Scored("logic_puzzle")
    /\ Len(expected_pairs(case.expected)) = 2
    /\ Cardinality(SatisfiedPairs(response.s, case.expected)) = 1
    /\ verdict = Return(FALSE)

\* C11: when the extraction yields no pair from the expected string (no
\* known name occurs in it, or no role word lies in the window of a name
\* that does), the logic-puzzle scorer returns true for every response text
\* and does not raise.
C11_NoPairsVacuouslyTrue ==
    (Scored("logic_puzzle") /\ expected_pairs(case.expected) = <<>>) =>
        verdict = Return(TRUE)

C11_Witness ==
    /\ Scored("logic_puzzle")
    /\ case.expected = "Zoey tells the truth"
    /\ OccursIgnoringCase("zoey", case.expected)
    /\ expected_pairs(case.expected) = <<>>
    /\ response.s = "The answer is 42"
    /\ verdict = Return(TRUE)

\* C10: for expected "Zoey is a knave, Oliver is a knight" the response
\* "Zoey is a knave" satisfies exactly one of the two expected pairs and is
\* incorrect; the response with both lines is correct.
C10_OneOfTwoPairs ==
    (Scored("logic_puzzle") /\ case.expected = "Zoey is a knave, Oliver is a knight") =>
        /\ response.s = "Zoey is a knave" =>
              /\ Len(expected_pairs(case.expected)) = 2
              /\ correct_matches(response.s, case.expected) = 1
              /\ verdict = Return(FALSE)
        /\ response.s = "(1) Zoey is a knave\n(2) Oliver is a knight" =>
              verdict = Return(TRUE)

\* the expected answer says "<name> is a <role>"
Assigns(expected, name, role) ==
    OccursIgnoringCase(name \o " is a " \o role, expected)

\* C23: for every expected answer of the suite, the pair extracted for a
\* participant carries the role the expected answer gives to that
\* participant; for "Zoey is a knave, Oliver is a knight" the pairs are
\* (zoey, knave) and (oliver, knight).
C23_PairsCarryAssignedRoles ==
    (Scored("logic_puzzle") /\ case.expected \in SuiteExpected) =>
        LET pairs == expected_pairs(case.expected)
        IN  /\ \A k \in 1..Len(pairs) : Assigns(case.expected, pairs[k][1], pairs[k][2])
            /\ case.expected = "Zoey is a knave, Oliver is a knight" =>
                  pairs = <<<<"zoey", "knave">>, <<"oliver", "knight">>>>


(***************************************************************************)
(* Properties of the backends (SpecQuery)                                  *)
(***************************************************************************)
IsHTTP == backend \in HTTPBackends

FailureKind == FailureKindOf(backend, env)

ReturnedText == outcome # Blocked /\ ~outcome.raised /\ outcome.value.type = "str"

\* C3: a query of OpenAIModel, OllamaModel or LocalLLM never raises, and on
\* a timeout, connection failure, non-success status, malformed success
\* payload or generation error it returns a value to the caller.
C3_QueryNeverRaises ==
    pc = "queried" =>
        /\ outcome = Blocked \/ ~outcome.raised
        /\ FailureKind \in ListedFailures => ReturnedText

C3_Witness ==
    /\ pc = "queried"
    /\ backend = "OpenAIModel"
    /\ env.transport = "ok" /\ env.status = 200 /\ env.payload.shape = "no_key"
    /\ outcome = Return(PyStr("Request Error: 'choices'"))

SentinelKinds == {"API", "Request", "Ollama", "Ollama Connection"}

\* <Kind> Error: <detail>
IsSentinel(s) ==
    \E k \in SentinelKinds : slice(s, 0, Len(k) + 8) = k \o " Error: "

HTTPFailure == AnsweredBySentinel(backend, env)

AllCases ==
    {<<"knights_knaves", g, k>> :
        g \in 1..Len(PerturbationOrder), k \in 1..5}
    \cup {<<"counterfactual", g, k>> : g \in 1..2, k \in 1..5}
    \cup {<<"memory_reasoning", 1, k>> : k \in 1..5}

SuiteCases ==
    {c \in AllCases :
        CASE c[1] = "knights_knaves" -> c[3] <= Len(kk_cases(c[2]))
          [] c[1] = "counterfactual" -> c[3] <= Len(cf_problems(c[2]))
          [] c[1] = "memory_reasoning" -> c[3] <= Len(test_questions)}

Families == {"knights_knaves", "counterfactual", "memory_reasoning"}

RunEnded == pc \in {"done", "aborted"}

\* C1: a failure while querying or scoring one case stays with that case:
\* when the validation run has ended, every case of every perturbation and
\* of every family has been evaluated, and the three families are reported
\* in the saved result, for every backend and every random outcome.
C1_FailureIsolatedPerCase ==
    RunEnded =>
        /\ evaluated = SuiteCases
        /\ DOMAIN all_results = Families
        /\ \E f \in files : DOMAIN f.content = Families

\* C2: a case of the arithmetic or the logic-puzzle family whose query was
\* answered by an error sentinel is scored as incorrect.
C2_FailedQueryScoredIncorrect ==
    (pc \in {"knights_knaves", "counterfactual"} /\ last # Idle /\ last.failed)
        => ~last.is_correct


(***************************************************************************)
(* The puzzles of the suite, read as logic                                 *)
(***************************************************************************)
Roles == {"knight", "knave"}

OtherRole(role) == IF role = "knight" THEN "knave" ELSE "knight"

\* the known names that occur in a text
NamedIn(text) == {names[k] : k \in {x \in 1..Len(names) : in(names[x], lower(text))}}

\* what is said in a puzzle: the text between each pair of quotation marks,
\* with the text that leads up to it
Sayings(quiz) ==
    LET marks == Ascending({i \in 1..Len(quiz) : CharAt(quiz, i) = "'"})
    IN  [k \in 1..(Len(marks) \div 2) |->
            [lead |-> SubSeq(quiz, IF k = 1 THEN 1 ELSE marks[2 * k - 2] + 1,
                                   marks[2 * k - 1] - 1),
             said |-> SubSeq(quiz, marks[2 * k - 1] + 1, marks[2 * k] - 1)]]

\* "<name> is a <role>" or "<name> is not a <role>" under an assignment
Holds(atom, roles) ==
    /\ Cardinality(NamedIn(atom)) = 1
    /\ \A who \in NamedIn(atom) :
          /\ who \in DOMAIN roles
          /\ (roles[who] = (IF in("knight", atom) THEN "knight" ELSE "knave"))
                # in(" is not a ", atom)

\* a saying: "If A then B", "A if and only if B", "A and B", or an atom
IsTrue(said, roles) ==
    IF find(said, "If ") = 0 /\ in(" then ", said)
    THEN Holds(slice(said, 3, find(said, " then ")), roles)
            => Holds(slice(said, find(said, " then ") + 6, Len(said)), roles)
    ELSE IF in(" if and only if ", said)
    THEN Holds(slice(said, 0, find(said, " if and only if ")), roles)
            <=> Holds(slice(said, find(said, " if and only if ") + 16, Len(said)), roles)
    ELSE IF in(" and ", said)
    THEN Holds(slice(said, 0, find(said, " and ")), roles)
            /\ Holds(slice(said, find(said, " and ") + 5, Len(said)), roles)
    ELSE Holds(said, roles)

\* the role that tells the truth: the knights, unless the puzzle says otherwise
TruthTeller(quiz) ==
    IF in("Knaves always tell the truth, and knights always lie", quiz)
    THEN "knave" ELSE "knight"

\* every saying has one speaker, who says the truth iff a truth-teller
Consistent(quiz, roles) ==
    \A k \in 1..Len(Sayings(quiz)) :
        /\ Cardinality(NamedIn(Sayings(quiz)[k].lead)) = 1
        /\ \A who \in NamedIn(Sayings(quiz)[k].lead) :
              /\ who \in DOMAIN roles
              /\ (roles[who] = TruthTeller(quiz)) <=> IsTrue(Sayings(quiz)[k].said, roles)

Solutions(quiz) == {roles \in [NamedIn(quiz) -> Roles] : Consistent(quiz, roles)}

\* the expected answer names the participants and gives each one its role
Expresses(expected, roles) ==
    /\ NamedIn(expected) = DOMAIN roles
    /\ \A who \in DOMAIN roles :
          /\ Assigns(expected, who, roles[who])
          /\ ~Assigns(expected, who, OtherRole(roles[who]))

\* the names of the uncommon_name variant
Substituted == [zoey |-> "xiomara", oliver |-> "zephyrus"]

KKAsked == pc = "knights_knaves" /\ last # Idle /\ last.index \in DOMAIN kk_cases(last.group)

\* C24: every knights/knaves puzzle the run asks has exactly two named
\* participants and exactly one role assignment consistent with what they
\* say, and the expected answer of the case is that assignment; the
\* flip_role answer is the first clean answer with the two role labels
\* swapped, the uncommon_name answer is the first clean answer under the
\* substituted names.
C24_PuzzlesHaveTheirExpectedSolution ==
    KKAsked =>
        /\ Cardinality(NamedIn(kk_cases(last.group)[last.index].quiz)) = 2
        /\ Len(Sayings(kk_cases(last.group)[last.index].quiz)) = 2
        /\ Cardinality(Solutions(kk_cases(last.group)[last.index].quiz)) = 1
        /\ \A roles \in Solutions(kk_cases(last.group)[last.index].quiz) :
              /\ Expresses(kk_cases(last.group)[last.index].expected, roles)
              /\ \A clean \in Solutions(kk_cases(1)[1].quiz) :
                    /\ PerturbationOrder[last.group] = "flip_role" =>
                          /\ DOMAIN roles = DOMAIN clean
                          /\ \A who \in DOMAIN clean : roles[who] = OtherRole(clean[who])
                    /\ PerturbationOrder[last.group] = "uncommon_name" =>
                          /\ DOMAIN roles = {Substituted[who] : who \in DOMAIN clean}
                          /\ \A who \in DOMAIN clean : roles[Substituted[who]] = clean[who]

C24_Witness ==
    /\ KKAsked
    /\ PerturbationOrder[last.group] = "flip_role"
    /\ Solutions(kk_cases(last.group)[last.index].quiz) =
          {[zoey |-> "knight", oliver |-> "knave"]}
    /\ Solutions(kk_cases(1)[1].quiz) = {[zoey |-> "knave", oliver |-> "knight"]}
    /\ Solutions(kk_cases(1)[2].quiz) = {[william |-> "knight", evelyn |-> "knave"]}
    /\ Solutions(kk_cases(3)[1].quiz) = {[xiomara |-> "knave", zephyrus |-> "knight"]}


(***************************************************************************)
(* The arithmetic problems of the suite, read as arithmetic                *)
(***************************************************************************)
Base11Digits == "0123456789A"

\* positional notation in base 11 of a natural number
RECURSIVE ToBase11(_)
ToBase11(n) ==
    IF n < 11 THEN CharAt(Base11Digits, n + 1)
    ELSE ToBase11(n \div 11) \o CharAt(Base11Digits, (n % 11) + 1)

\* the question before its question mark
Stem(problem) == slice(problem, 0, find(problem, "?"))

\* "What is <a> <op> <b>": the two operands and the operator
Operation(stem) ==
    [a |-> int(split(stem)[3]), op |-> split(stem)[4], b |-> int(split(stem)[5])]

Calculated(o) ==
    CASE o.op = "+" -> o.a + o.b
      [] o.op = "-" -> o.a - o.b
      [] o.op = "*" -> o.a * o.b
      [] OTHER -> -1

Base11Asked ==
    /\ pc = "counterfactual"
    /\ last # Idle
    /\ last.family = "counterfactual"
    /\ last.group = 2
    /\ last.index \in DOMAIN cf_problems(1)
    /\ last.index \in DOMAIN cf_problems(2)

\* C25: each base-11 problem the run asks is the base-10 problem of the
\* same index, with the same operands and operator, followed by
\* " in base 11", and its expected answer is the base-11 notation (digits
\* 0-9 and A) of the integer answer of that base-10 problem, which is the
\* result of the operation.
C25_Base11AnswersAreBase10Answers ==
    Base11Asked =>
        /\ cf_problems(2)[last.index].problem =
              Stem(cf_problems(1)[last.index].problem) \o " in base 11?"
        /\ Operation(Stem(cf_problems(2)[last.index].problem)) =
              Operation(Stem(cf_problems(1)[last.index].problem))
        /\ cf_problems(1)[last.index].answer =
              PyInt(Calculated(Operation(Stem(cf_problems(1)[last.index].problem))))
        /\ cf_problems(1)[last.index].answer.n >= 0
        /\ cf_problems(2)[last.index].answer =
              PyStr(ToBase11(cf_problems(1)[last.index].answer.n))

C25_Witness ==
    /\ Base11Asked
    /\ last.index = 3
    /\ cf_problems(1)[3].answer = PyInt(54)
    /\ cf_problems(2)[3].answer = PyStr("4A")
    /\ Operation(Stem(cf_problems(2)[3].problem)) = [a |-> 6, op |-> "*", b |-> 9]


(***************************************************************************)
(* MockLargeModel on the prompts of the validation run                     *)
(***************************************************************************)
\* the run is about to query the model for a case
Asking ==
    \/ pc = "knights_knaves" /\ group <= Len(PerturbationOrder) /\ n_done < total
    \/ pc = "counterfactual" /\ group <= 2 /\ n_done < total
    \/ pc = "memory_reasoning" /\ n_done < total

\* the prompt of that query
AskedPrompt ==
    CASE pc = "knights_knaves" -> kk_prompt(kk_cases(group)[n_done + 1].quiz)
      [] pc = "counterfactual" -> cf_prompt(cf_problems(group)[n_done + 1].problem)
      [] pc = "memory_reasoning" -> mr_prompt(test_questions[n_done + 1].question)

\* C26: MockLargeModel.query returns a text string for every prompt the
\* evaluator builds from the logic, arithmetic and memory/reasoning cases
\* of the suite, whatever the random outcome.
C26_MockReturnsText ==
    (Asking /\ model = "MockLargeModel") =>
        \A o \in QueryOutcomes(model, AskedPrompt) :
            /\ ~o.result.raised
            /\ o.result.value.type = "str"

AskingBase10 == pc = "counterfactual" /\ group = 1 /\ n_done < total

\* C28: in its correct-answer branch, on the prompt built for a base-10
\* addition or subtraction problem of the suite, MockLargeModel returns a
\* text that contains the true result of the two operands, and the
\* arithmetic scorer marks the case correct.
C28_MockCalculatesBase10 ==
    (AskingBase10 /\ model = "MockLargeModel"
        /\ Operation(Stem(base10_problems[n_done + 1].problem)).op \in {"+", "-"}) =>
        /\ MockLargeModel_query(AskedPrompt, TRUE).type = "str"
        /\ in(str_int(Calculated(Operation(Stem(base10_problems[n_done + 1].problem)))),
              MockLargeModel_query(AskedPrompt, TRUE).s)
        /\ answer_in_response(MockLargeModel_query(AskedPrompt, TRUE),
                              base10_problems[n_done + 1].answer) = Return(TRUE)


(***************************************************************************)
(* Properties of the comprehensive run (SpecRun)                           *)
(***************************************************************************)
Events(kind) == {k \in DOMAIN history : history[k].event = kind}

KeyOf(k) == model_keys[history[k].model]

MethodOf(k) == methods[history[k].method]

Blank(s) == \A x \in 1..Len(s) : CharAt(s, x) \in WHITESPACE

\* the probes whose load raised or whose query came back empty or blank
FailedProbes ==
    {k \in Events("probe") :
        \/ load_model(KeyOf(k), history[k].env).raised
        \/ Blank(LocalLLM_query(history[k].env.llm).value.s)}

\* the probe of this model is the last one of its key
LastOfKey(k) ==
    \A k2 \in Events("probe") : KeyOf(k2) = KeyOf(k) => k2 <= k

\* C5: when the user interrupts the run, everything completed before the
\* interrupt is persisted: every method that finished, of the models fully
\* processed and of the model in progress, is in a file of the output
\* directory.
C5_InterruptKeepsCompleted ==
    pc = "interrupted" =>
        \A k \in Events("method") :
            /\ model_file(KeyOf(k)) \in DOMAIN output_dir
            /\ MethodOf(k) \in DOMAIN output_dir[model_file(KeyOf(k))]

\* C6: a model that fails the availability check is recorded as
\* {status: unavailable, error}, no method is run for it, no per-model file
\* is written for it, and the models after it in the list are still
\* processed.
C6_UnavailableModelIsolated ==
    \A k \in FailedProbes :
        /\ \A k2 \in Events("method") \cup Events("file") :
              history[k2].model # history[k].model
        /\ (LastOfKey(k) /\ pc # "interrupted") =>
              /\ KeyOf(k) \in DOMAIN run_results.results
              /\ run_results.results[KeyOf(k)] = unavailable
        /\ (k = Len(history) /\ pc # "interrupted") =>
              /\ model_file(KeyOf(k)) \in DOMAIN output_dir
                    => \E k2 \in Events("file") : KeyOf(k2) = KeyOf(k)
              /\ pc = "models"
              /\ model_index = history[k].model + 1
        /\ pc = "done" =>
              /\ \A i \in 1..Len(model_keys) :
                    \E k2 \in Events("probe") : history[k2].model = i
              /\ LastOfKey(k) => returned.results[KeyOf(k)] = unavailable

C6_Witness ==
    /\ pc = "done"
    /\ model_keys = <<"qwen-0.5b", "llama-1b">>
    /\ \E k \in FailedProbes :
          /\ history[k].model = 1
          /\ history[k].env.load = "ok"
          /\ history[k].env.llm.generation = "ok"
          /\ history[k].env.llm.text = " "
    /\ model_file("llama-1b") \in DOMAIN output_dir
    /\ model_file("qwen-0.5b") \notin DOMAIN output_dir

\* the method runs that raised, or whose method is unknown
ErrorRuns ==
    {k \in Events("method") :
        history[k].ended = "raise" \/ MethodOf(k) \notin KnownMethods}

\* no later run of the same method for the same model key
LastRun(k) ==
    /\ \A k2 \in Events("method") :
          (KeyOf(k2) = KeyOf(k) /\ MethodOf(k2) = MethodOf(k)) => k2 <= k
    /\ \A k2 \in Events("probe") : KeyOf(k2) = KeyOf(k) => k2 <= k

\* C7: when a method raises or is unknown for a model, its entry carries an
\* error field, the run goes on with the remaining methods of the model and
\* with the remaining models, and they are all in the result that is
\* returned and written at the end.
C7_MethodFailureIsolated ==
    \A k \in ErrorRuns :
        /\ pc # "failed"
        /\ (k = Len(history) /\ pc # "interrupted") =>
              /\ pc = "methods"
              /\ method_index = history[k].method + 1
              /\ MethodOf(k) \in DOMAIN model_results
              /\ "error" \in DOMAIN model_results[MethodOf(k)]
        /\ pc = "done" =>
              /\ \A j \in 1..Len(methods) :
                    \E k2 \in Events("method") :
                        history[k2].model = history[k].model /\ history[k2].method = j
              /\ \A i \in 1..Len(model_keys) :
                    \E k2 \in Events("probe") : history[k2].model = i
              /\ LastRun(k) =>
                    /\ "error" \in DOMAIN returned.results[KeyOf(k)][MethodOf(k)]
                    /\ DOMAIN returned.results[KeyOf(k)] = {methods[j] : j \in 1..Len(methods)}
                    /\ output_dir[summary_file] = returned
                    /\ output_dir[model_file(KeyOf(k))] = returned.results[KeyOf(k)]

C7_Witness ==
    /\ pc = "done"
    /\ model_keys = <<"qwen-0.5b", "llama-1b">>
    /\ methods = <<"knights_knaves", "perplexity">>
    /\ \E k \in ErrorRuns :
          /\ history[k].model = 1 /\ history[k].method = 1 /\ history[k].ended = "raise"
    /\ \E k \in ErrorRuns : history[k].model = 1 /\ history[k].method = 2
    /\ \E k \in Events("method") :
          /\ history[k].model = 2 /\ history[k].method = 1 /\ history[k].ended = "metrics"
    /\ "error" \notin DOMAIN returned.results["llama-1b"]["knights_knaves"]


(***************************************************************************)
(* Properties of the style classifier (SpecStyle)                          *)
(***************************************************************************)
\* how many keywords of the list occur in the unit, letters without case
Cues(keywords, unit) ==
    Cardinality({k \in 1..Len(keywords) : OccursIgnoringCase(keywords[k], unit)})

\* the units of the case that are longer than the minimum
Surviving == {k \in 1..Len(case.units) : Len(case.units[k]) > MinSentenceLen}

MemoryUnits ==
    {k \in Surviving :
        Cues(memory_keywords, case.units[k]) > Cues(reasoning_keywords, case.units[k])}

ReasoningUnits ==
    {k \in Surviving :
        Cues(reasoning_keywords, case.units[k]) > Cues(memory_keywords, case.units[k])}

Classified == pc = "classified" /\ response.type = "str"

Aligned == pc = "aligned"

AtMost(x, y) == ~less(y, x)

\* C12: the style classifier returns exactly 0.5 when no unit of the
\* response is classifiable: no unit survives the length filter, or every
\* surviving unit has as many memory cues as reasoning cues; it does not
\* raise a division by zero.
C12_NeutralWhenUnclassifiable ==
    (Classified /\ MemoryUnits = {} /\ ReasoningUnits = {}) =>
        verdict = Return(Half)

C12_Witness ==
    /\ Classified
    /\ case.units = <<"I KNOW you know because of rain", "Thus it is", "Hello out there everybody">>
    /\ Surviving = {1, 3}
    /\ Cues(memory_keywords, case.units[1]) = 1
    /\ Cues(reasoning_keywords, case.units[1]) = 1
    /\ verdict = Return(Half)

\* C13: a unit counts as memory-leaning iff it has strictly more memory cues
\* than reasoning cues, as reasoning-leaning iff the reverse, a tie counts
\* for neither; when a unit is classified the result is
\* memory_count / (memory_count + reasoning_count).
C13_StrictMajorityRatio ==
    Classified =>
        LET m == Cardinality(MemoryUnits)
            r == Cardinality(ReasoningUnits)
        IN  /\ ~verdict.raised
            /\ m + r > 0 => verdict.value = Frac(m, m + r)

C13_Witness ==
    /\ Classified
    /\ case.units = <<"I know this is a documented fact", "I KNOW you know because of rain",
                      "Therefore we can conclude it works">>
    /\ Cardinality(MemoryUnits) = 1
    /\ Cardinality(ReasoningUnits) = 1
    /\ verdict = Return(Half)

\* C14: the memory ratio of every response lies in [0, 1], and for an
\* expected ratio in [0, 1] the alignment 1 - |expected - actual| lies in
\* [0, 1].
C14_RatioAndAlignmentInUnitInterval ==
    /\ Classified =>
          /\ AtMost(Zero, verdict.value)
          /\ AtMost(verdict.value, One)
    /\ Aligned =>
          /\ AtMost(Zero, case.expected_memory_ratio)
          /\ AtMost(case.expected_memory_ratio, One)
          /\ AtMost(Zero, verdict.value.alignment_score)
          /\ AtMost(verdict.value.alignment_score, One)

C14_Witness ==
    /\ Aligned
    /\ case.expected_memory_ratio = One
    /\ Cardinality(MemoryUnits) = 0
    /\ Cardinality(ReasoningUnits) = 2
    /\ verdict.value.actual_memory_ratio = Zero
    /\ verdict.value.alignment_score = Zero

\* the places of the unit where a keyword of the list begins, case ignored
Occurrences(keywords, unit) ==
    {<<k, i>> \in (1..Len(keywords)) \X (1..Len(unit)) :
        /\ i + Len(keywords[k]) - 1 <= Len(unit)
        /\ lower(SubSeq(unit, i, i + Len(keywords[k]) - 1)) = keywords[k]}

OccurrenceCount(keywords, unit) == Cardinality(Occurrences(keywords, unit))

MemoryUnitsByOccurrence ==
    {k \in Surviving :
        OccurrenceCount(memory_keywords, case.units[k])
            > OccurrenceCount(reasoning_keywords, case.units[k])}

ReasoningUnitsByOccurrence ==
    {k \in Surviving :
        OccurrenceCount(reasoning_keywords, case.units[k])
            > OccurrenceCount(memory_keywords, case.units[k])}

\* C21: the cue count of a unit is the number of occurrences of the keywords
\* of the set in the unit, a keyword that occurs twice counting 2, and the
\* units are labelled on these occurrence counts.
C21_CuesCountedByOccurrence ==
    Classified =>
        LET m == Cardinality(MemoryUnitsByOccurrence)
            r == Cardinality(ReasoningUnitsByOccurrence)
        IN  /\ ~verdict.raised
            /\ m + r > 0 => verdict.value = Frac(m, m + r)
            /\ m + r = 0 => verdict.value = Half

\* the units of the case of at least the minimum length
Kept == {k \in 1..Len(case.units) : Len(case.units[k]) >= MinSentenceLen}

\* C22: the response is split into units at the sentence ends, exactly the
\* trimmed fragments shorter than 10 characters are discarded, and a
\* fragment of 10 characters or more is kept and classified.
C22_FragmentsOfTenKept ==
    Classified =>
        LET m == Cardinality({k \in Kept :
                    Cues(memory_keywords, case.units[k])
                        > Cues(reasoning_keywords, case.units[k])})
            r == Cardinality({k \in Kept :
                    Cues(reasoning_keywords, case.units[k])
                        > Cues(memory_keywords, case.units[k])})
        IN  /\ ~verdict.raised
            /\ m + r > 0 => verdict.value = Frac(m, m + r)
            /\ m + r = 0 => verdict.value = Half


(***************************************************************************)
(* Properties of the aggregation (SpecAggregate)                           *)
(***************************************************************************)
\* the mean of the three values of a field, added from 0 in question order
MeanOfThree(rs, field) ==
    div(add(add(add(Zero, rs[1][field]), rs[2][field]), rs[3][field]), Frac(3, 1))

Tallying == pc = "tally"

Reported == pc \in {"reported", "repeated"}

\* the cases of a group that were scored, and those scored as correct
Processed(g) == evaluated[g].right + evaluated[g].wrong

Right(g) == evaluated[g].right

GroupIndex(name) == IF name = "clean" THEN 1 ELSE 2

\* C15: in every group, at every point of the case loop,
\* 0 <= correct <= cases processed <= total; the accuracy that is reported is
\* correct / total when total > 0 and 0 when total = 0, and lies in [0, 1].
C15_CountersAndAccuracy ==
    /\ Tallying =>
          /\ 0 <= correct /\ correct <= n_done /\ n_done <= total
          /\ correct = Right(group)
          /\ n_done = Processed(group)
    /\ (Tallying \/ pc = "analysis" \/ Reported) =>
          \A name \in DOMAIN results :
              LET g == GroupIndex(name)
                  entry == results[name]
              IN  /\ entry.total = case.totals[g]
                  /\ entry.total = Processed(g)
                  /\ entry.correct = Right(g)
                  /\ entry.total > 0 => entry.accuracy = Frac(Right(g), Processed(g))
                  /\ entry.total = 0 => entry.accuracy = Zero
                  /\ AtMost(Zero, entry.accuracy)
                  /\ AtMost(entry.accuracy, One)

C15_Witness ==
    /\ Reported
    /\ results["clean"] = [accuracy |-> Zero, correct |-> 0, total |-> 0]
    /\ results["variant"].total = 3
    /\ results["variant"].correct = 2
    /\ results["variant"].accuracy = Frac(2, 3)

\* C16: the drop of the variant is exactly 0 when the baseline accuracy is 0,
\* and (baseline - variant) / baseline otherwise; a variant that is better
\* than the baseline has a negative drop, which is not clamped.
C16_DropDefinition ==
    Reported =>
        LET baseline == results["clean"].accuracy
            variant == results["variant"].accuracy
        IN  /\ baseline = Zero => analysis.drop = Zero
            /\ baseline # Zero => analysis.drop = div(sub(baseline, variant), baseline)
            /\ (baseline # Zero /\ less(baseline, variant)) => less(analysis.drop, Zero)

C16_Witness ==
    /\ Reported
    /\ results["clean"].accuracy = Half
    /\ results["variant"].accuracy = One
    /\ analysis.drop = Frac(0 - 1, 1)

MemoryReasoningReturned ==
    pc \in {"save", "done"} /\ "memory_reasoning" \in DOMAIN all_results

\* C18: for the memory/reasoning family there is one detailed result per
\* question, in question order; overall_memory_ratio is the arithmetic mean
\* of their actual memory ratios and overall_alignment the arithmetic mean of
\* their alignment scores.
C18_OverallMeans ==
    MemoryReasoningReturned =>
        LET mr == all_results["memory_reasoning"]
            rs == mr.detailed_results
        IN  /\ Len(rs) = Len(test_questions)
            /\ Len(rs) = 3
            /\ \A k \in 1..Len(rs) :
                  /\ rs[k].question = test_questions[k].question
                  /\ rs[k].alignment_score =
                        sub(One, fabs(sub(test_questions[k].expected_memory_ratio,
                                          rs[k].actual_memory_ratio)))
            /\ mr.overall_memory_ratio = MeanOfThree(rs, "actual_memory_ratio")
            /\ mr.overall_alignment = MeanOfThree(rs, "alignment_score")

C18_Witness ==
    /\ MemoryReasoningReturned
    /\ pc = "done"
    /\ model = "MockLargeModel"
    /\ LET mr == all_results["memory_reasoning"]
       IN  /\ mr.detailed_results[1].actual_memory_ratio
                 # mr.detailed_results[2].actual_memory_ratio
           /\ mr.overall_memory_ratio # mr.detailed_results[1].actual_memory_ratio
           /\ mr.overall_alignment # mr.detailed_results[1].alignment_score


(***************************************************************************)
(* Properties of the order of the comprehensive run (SpecRun)              *)
(***************************************************************************)
HasModel(k) == history[k].event \in {"probe", "method", "file"}

\* the availability check of the probe at position k came back false
Unavailable(k) == ~test_model_availability(KeyOf(k), history[k].env)

\* what may come directly before the event at position k > 1
FollowsInOrder(k) ==
    LET e == history[k]
        p == history[k - 1]
    IN  /\ HasModel(k - 1)
        /\ CASE e.event = "probe" ->
                  /\ e.model = p.model + 1
                  /\ \/ p.event = "file"
                     \/ p.event = "probe" /\ Unavailable(k - 1)
             [] e.event = "method" ->
                  /\ e.model = p.model
                  /\ \/ /\ p.event = "probe"
                        /\ ~Unavailable(k - 1)
                        /\ e.method = 1
                     \/ /\ p.event = "method"
                        /\ e.method = p.method + 1
             [] e.event = "file" ->
                  /\ e.model = p.model
                  /\ \/ p.event = "method" /\ p.method = Len(methods)
                     \/ /\ p.event = "probe"
                        /\ ~Unavailable(k - 1)
                        /\ Len(methods) = 0
             [] OTHER ->
                  /\ k = Len(history)
                  /\ p.model = Len(model_keys)
                  /\ \/ p.event = "file"
                     \/ p.event = "probe" /\ Unavailable(k - 1)

\* C19: the comprehensive run is strictly sequential: the models are taken
\* in list order; for each model the availability check comes before any of
\* its methods, the requested methods run one at a time in the requested
\* order, and no step of the next model starts before all the methods of
\* this model have finished and its results have been stored.
C19_StrictlySequential ==
    \A k \in DOMAIN history :
        /\ k = 1 => (history[k].event = "probe" /\ history[k].model = 1)
        /\ k > 1 => FollowsInOrder(k)
        /\ (history[k].event = "probe" /\ pc # "interrupted") =>
              \A i \in 1..(history[k].model - 1) :
                  /\ i \in DOMAIN model_keys
                  /\ model_keys[i] \in DOMAIN run_results.results

C19_Witness ==
    /\ pc = "done"
    /\ model_keys = <<"qwen-0.5b", "llama-1b">>
    /\ Len(methods) = 3
    /\ Len(history) = 11
    /\ history[5].event = "file"
    /\ history[6].event = "probe"
    /\ history[9].event = "method"
    /\ history[9].method = 3
    /\ history[9].model = 2

\* the values of a list
Requested(list) == {list[i] : i \in DOMAIN list}

\* an entry of a method: its metrics, or an error field, with the time
MetricsOrError(entry, method) ==
    /\ "evaluation_time" \in DOMAIN entry
    /\ IF "error" \in DOMAIN entry
       THEN DOMAIN entry = {"error", "evaluation_time"}
       ELSE /\ method \in KnownMethods
            /\ entry = Put(evaluation_output(method), "evaluation_time",
                           entry["evaluation_time"])

\* the summary and the report are written once, as the last step, after
\* every requested model was probed
WrittenOnceAtTheEnd ==
    /\ Cardinality(Events("summary")) = 1
    /\ history[Len(history)].event = "summary"
    /\ \A i \in DOMAIN model_keys :
          \E k \in Events("probe") : history[k].model = i
    /\ {summary_file, report_path} \subseteq DOMAIN output_dir
    /\ output_dir[summary_file] = returned
    /\ DOMAIN output_dir[report_path] = DOMAIN returned.results

\* C27: when run_comprehensive_evaluation has returned, its result has
\* exactly one entry per requested model key; the entry of a model that was
\* available has exactly one entry per requested method, each holding the
\* metrics of the method or an error field, together with evaluation_time;
\* the summary file and the report are written exactly once, after all the
\* models, and not at all before the run has returned.
C27_ResultTreeComplete ==
    /\ pc = "done" =>
          /\ DOMAIN returned.results = Requested(model_keys)
          /\ \A k \in Events("probe") :
                LastOfKey(k) =>
                    IF Unavailable(k)
                    THEN returned.results[KeyOf(k)] = unavailable
                    ELSE /\ DOMAIN returned.results[KeyOf(k)] = Requested(methods)
                         /\ \A m \in Requested(methods) :
                               /\ m \in DOMAIN returned.results[KeyOf(k)]
                               /\ MetricsOrError(returned.results[KeyOf(k)][m], m)
          /\ WrittenOnceAtTheEnd
    /\ pc \in {"models", "methods", "failed", "interrupted"} =>
          /\ Events("summary") = {}
          /\ {summary_file, report_path} \cap DOMAIN output_dir = {}

C27_Witness ==
    /\ pc = "done"
    /\ model_keys = <<"qwen-0.5b", "llama-1b">>
    /\ methods = <<"knights_knaves", "perplexity">>
    /\ returned.results["qwen-0.5b"] = unavailable
    /\ returned.results["llama-1b"] =
          [knights_knaves |-> Put(evaluation_output("knights_knaves"),
                                  "evaluation_time", "method_time"),
           perplexity |-> [error |-> "Evaluation failed",
                           evaluation_time |-> "method_time"]]
    /\ Cardinality(Events("summary")) = 1

=============================================================================
